---- MODULE Spec2Model ----
(***************************************************************************)
(* Stat-block conversion pipeline: the rich-text Record Assembler          *)
(* (DocxStatBlockConverter), the PDF block driver (StatBlockExtractor and  *)
(* main), the field grammars they call and the Schema Validator            *)
(* (StatBlockValidator and its sub-models).                                *)
(*                                                                         *)
(* A document is modelled by what the grammars can see of it: which        *)
(* headings it has, which stat lines match their templates and with which  *)
(* captured groups, and which entries its sections hold.                   *)
(*                                                                         *)
(* Python values: a dict is a function whose DOMAIN is the set of keys     *)
(* present; None for an optional value is the empty tuple <<>> and a       *)
(* present value v is <<v>>; an exception ends the run with the exception  *)
(* recorded in `failure`.                                                  *)
(***************************************************************************)
EXTENDS Integers, Sequences, FiniteSets, TLC

VARIABLES
    mode,              \* which program runs: "docx", "pdf", "validator" or "interleaved"
    doc,               \* the rich-text document handed to convert_docx_to_schema
    state,             \* Record Assembler state
    current_creature,  \* DocxStatBlockConverter.current_creature
    returned,          \* value convert_docx_to_schema returned to its caller (<<>> if none)
    failure,           \* the exception that ended the run (<<>> if none)
    executed,          \* stages that have run, in order
    accepted,          \* records the Schema Validator has accepted
    output_files,      \* records written to output files
    script_done,       \* the command-line driver has finished
    pdf_blocks,        \* monster_blocks of the PDF driver
    pdf_i,             \* index of the next block the PDF driver processes
    vop,               \* validator run: the model validated last
    vin,               \* validator run: its input
    vout,              \* validator run: the errors it reported
    runs               \* interleaved conversions on one converter: each run's document, position and outcome

vars == << mode, doc, state, current_creature, returned, failure, executed,
           accepted, output_files, script_done, pdf_blocks, pdf_i, vop, vin, vout,
           runs >>

asmVars == << doc, state, current_creature, returned, failure, executed >>
pdfVars == << pdf_blocks, pdf_i >>
valVars == << vop, vin, vout >>

----------------------------------------------------------------------------
(* Bounds of the model *)

MaxActions == 2
MaxBlocks == 2
MaxEffects == 2
MaxTokens == 2
MaxEntries == 2
MaxParts == 2
MaxParagraphs == 3
MaxStream == 4

----------------------------------------------------------------------------
(* Python values *)

None == <<>>
Some(v) == <<v>>
IsNone(x) == x = <<>>
Val(x) == x[1]

EmptyDict == [k \in {} |-> None]

\* dict.update(new): keys of new override
Update(old, new) == new @@ old

HasKey(d, k) == k \in DOMAIN d

----------------------------------------------------------------------------
(* Challenge ratings and the CR -> XP tables *)

\* A rating as the Challenge grammar captures it, r"(\d+(?:/\d+)?)": the str
\* "n" (den = 0 stands for "no slash") or the str "n/d".
StrRating(n, d) == [type |-> "str", num |-> n, den |-> d]
\* A rating given as a Python number; pydantic's Union[float, str] keeps it as a float.
FloatRating(n, d) == [type |-> "float", num |-> n, den |-> d]
\* An int key of a dict literal
IntKey(n) == [type |-> "int", num |-> n, den |-> 1]

CanonicalRatings ==
    {StrRating(0, 0), StrRating(1, 8), StrRating(1, 4), StrRating(1, 2)}
        \cup {StrRating(n, 0) : n \in 1..30}

\* Ratings the grammar accepts that are not in the canonical table
OffTableRatings == {StrRating(31, 0), StrRating(3, 4)}

RatingTokens == CanonicalRatings \cup OffTableRatings

\* XP of the integer ratings 1..30
XpByInt ==
    << 200, 450, 700, 1100, 1800, 2300, 2900, 3900, 5000, 5900,
       7200, 8400, 10000, 11500, 13000, 15000, 18000, 20000, 22000, 25000,
       33000, 41000, 50000, 62000, 75000, 90000, 105000, 120000, 135000, 155000 >>

\* The documented XP of a canonical rating
CanonicalXp(r) ==
    IF r.den = 8 THEN 25
    ELSE IF r.den = 4 THEN 50
    ELSE IF r.den = 2 THEN 100
    ELSE IF r.num = 0 THEN 10
    ELSE XpByInt[r.num]

\* Python equality of two dict keys: a str equals only the same str, and
\* numbers (int or float) are equal when their values are.
PyKeyEq(a, b) ==
    IF a.type = "str" \/ b.type = "str"
    THEN a = b
    ELSE a.num * b.den = b.num * a.den

\* dnd_constants.CR_TO_XP, the table the parsers look ratings up in: keyed by
\* the rating as text.
DndCrToXp == [r \in CanonicalRatings |-> CanonicalXp(r)]

\* str(cr) of a rating that is already a str
StrOf(r) == IF r.type = "str" THEN r ELSE StrRating(r.num, IF r.den = 1 THEN 0 ELSE r.den)

\* DocxStatBlockConverter._get_xp_for_cr: CR_TO_XP.get(str(cr), 0)
GetXpForCr(cr) ==
    IF StrOf(cr) \in DOMAIN DndCrToXp THEN DndCrToXp[StrOf(cr)] ELSE 0

\* A Challenge branch that keeps the XP annotation of the line
ChallengeEntry_KeepsSourceXp(rating, srcXp) ==
    [rating |-> rating, xp |-> srcXp]

\* The Challenge branch of _process_core_stats on a line that matches
\* r"Challenge (\d+(?:/\d+)?)\s*\(([,\d]+)\s*XP\)": srcXp is group 2.
ChallengeEntry(rating, srcXp) ==
    [rating |-> rating, xp |-> GetXpForCr(rating)]

\* CoreStatsParser.parse_challenge_rating on a line that matches its template
ParseChallengeRating(rating, srcXp) ==
    [rating |-> rating, xp |-> GetXpForCr(rating)]

\* ChallengeRating.CR_TO_XP: the int key 0, the str keys "0", "1/8", "1/4",
\* "1/2" and the int keys 1..30.
ValidatorCrToXp ==
    [k \in {IntKey(0), StrRating(0, 0), StrRating(1, 8), StrRating(1, 4), StrRating(1, 2)}
            \cup {IntKey(n) : n \in 1..30} |->
        IF k.type = "str" THEN CanonicalXp(k)
        ELSE IF k.num = 0 THEN 0
        ELSE XpByInt[k.num]]

\* cls.CR_TO_XP.get(key)
ValidatorXpGet(key) ==
    LET hits == {k \in DOMAIN ValidatorCrToXp : PyKeyEq(k, key)}
    IN  IF hits = {} THEN None ELSE Some(ValidatorCrToXp[CHOOSE k \in hits : TRUE])

\* One line of a pydantic ValidationError: the field, the list index (0 when
\* the error is not about a list element), the entry name the message
\* carries ("" when it names none) and the message.
ErrAt(loc, idx, name, msg) == [loc |-> loc, idx |-> idx, name |-> name, msg |-> msg]
Err(loc, msg) == ErrAt(loc, 0, "", msg)

\* ChallengeRating.validate_rating: a str is only checked to be a fraction or a
\* number; a number must lie in 0..30.
ValidateRating(v) ==
    IF v.type = "str" THEN {}
    ELSE IF v.num >= 0 /\ v.num <= 30 * v.den THEN {}
    ELSE {Err("rating", "CR must be between 0 and 30")}

\* ChallengeRating.validate_xp(v, info): data is info.data, the fields
\* validated before xp.
ValidateXp(v, data) ==
    IF ~ HasKey(data, "rating")
    THEN {Err("xp", "CR rating is required to validate XP")}
    ELSE LET rating == data["rating"]
             \* key = str(rating) if isinstance(rating, (str, int)) else float(rating)
             key == IF rating.type \in {"str", "int"} THEN StrOf(rating) ELSE rating
             expected_xp == ValidatorXpGet(key)
         IN  IF IsNone(expected_xp)
             THEN {Err("xp", "Invalid CR value for XP lookup")}
             ELSE IF v # Val(expected_xp)
             THEN {Err("xp", "XP value does not match expected value")}
             ELSE {}

\* ChallengeRating(**cr): fields in declaration order (rating, xp); a field
\* that failed is not in info.data of the fields after it.
ChallengeRatingErrors(cr) ==
    LET e1 == ValidateRating(cr.rating)
        data == IF e1 = {} THEN [k \in {"rating"} |-> cr.rating] ELSE EmptyDict
    IN  e1 \cup ValidateXp(cr.xp, data)

----------------------------------------------------------------------------
(* Proficiency bonus *)

\* calculate_proficiency_bonus(cr) raises TypeError at `'/' not in cr` unless
\* cr is a str.
CalculateProficiencyBonusRaises(cr) == cr.type # "str"

\* calculate_proficiency_bonus(cr) for a str cr: rating = int(cr) without a
\* slash and 1 with one; 2 below 1, else 2 + (rating - 1) // 4.
CalculateProficiencyBonus(cr) ==
    LET rating == IF cr.den = 0 THEN cr.num ELSE 1
    IN  IF rating < 1 THEN 2 ELSE 2 + ((rating - 1) \div 4)

\* float(rating), float(int(num) / int(denom)) of a str rating
FloatOf(r) ==
    IF r.type = "str" THEN FloatRating(r.num, IF r.den = 0 THEN 1 ELSE r.den) ELSE r

\* StatBlockValidator.validate_proficiency_bonus(v, info), mode='before': the
\* errors it raises for the stated bonus v (None or an int).
ValidateProficiencyBonus(v, data) ==
    IF ~ HasKey(data, "challenge_rating")
    THEN {Err("proficiency_bonus", "Challenge rating is required to validate proficiency bonus")}
    ELSE LET rating == FloatOf(data["challenge_rating"].rating)
         IN  IF CalculateProficiencyBonusRaises(rating)
             THEN {Err("proficiency_bonus", "TypeError")}
             ELSE IF ~ IsNone(v) /\ Val(v) # CalculateProficiencyBonus(rating)
             THEN {Err("proficiency_bonus", "Proficiency bonus does not match CR")}
             ELSE {}

----------------------------------------------------------------------------
(* Spellcasting trait *)

\* dict.get(key, default)
Get(d, k, default) == IF HasKey(d, k) THEN d[k] ELSE default

\* SpellcastingTrait.validate_dc(v, info)
ValidateDc(v, data) ==
    IF ~ (0 <= v /\ v <= 30)
    THEN {Err("dc", "Spell save DC must be between 0 and 30")}
    ELSE IF HasKey(data, "base_modifier")
              /\ v # 8 + data["base_modifier"] + Get(data, "proficiency_bonus", 2)
    THEN {Err("dc", "DC does not match calculated DC")}
    ELSE {}

\* SpellcastingTrait.validate_attack_bonus(v, info)
ValidateAttackBonus(v, data) ==
    IF ~ (0 <= v /\ v <= 30)
    THEN {Err("attack_bonus", "Spell attack bonus must be between 0 and 30")}
    ELSE IF HasKey(data, "base_modifier")
              /\ v # data["base_modifier"] + Get(data, "proficiency_bonus", 2)
    THEN {Err("attack_bonus", "Attack bonus does not match calculated bonus")}
    ELSE {}

\* SpellcastingTrait.validate_base_modifier(v)
ValidateBaseModifier(v) ==
    IF ~ (-5 <= v /\ v <= 10)
    THEN {Err("base_modifier", "Base modifier must be between -5 and +10")}
    ELSE {}

\* The numeric fields of SpellcastingTrait in declaration order; type and
\* ability are declared before them.
SpellcastingFieldOrder == << "dc", "attack_bonus", "base_modifier" >>

\* info.data when the numeric field at position i is validated: the fields
\* declared before it (their validation succeeded).
SpellcastingInfoData(sc, i, failed) ==
    [k \in {SpellcastingFieldOrder[j] : j \in 1..(i - 1)} \ failed |-> sc[k]]

\* SpellcastingTrait(**sc) for a trait whose type and ability are valid
SpellcastingErrors(sc) ==
    LET e_dc == ValidateDc(sc.dc, SpellcastingInfoData(sc, 1, {}))
        f1 == IF e_dc = {} THEN {} ELSE {"dc"}
        e_ab == ValidateAttackBonus(sc.attack_bonus, SpellcastingInfoData(sc, 2, f1))
        e_bm == ValidateBaseModifier(sc.base_modifier)
    IN  e_dc \cup e_ab \cup e_bm

----------------------------------------------------------------------------
(* Damage types *)

PHYSICAL_DAMAGE_TYPES == {"bludgeoning", "piercing", "slashing"}

ENERGY_DAMAGE_TYPES ==
    {"acid", "cold", "fire", "force", "lightning",
     "necrotic", "poison", "psychic", "radiant", "thunder"}

\* DamageTypeParser.validate_damage_type: the token is the sequence of its
\* lower-cased words, damage_type.lower().split().
ValidateDamageType(parts) ==
    IF Len(parts) = 2 /\ parts[1] = "nonmagical"
    THEN parts[2] \in PHYSICAL_DAMAGE_TYPES
    ELSE IF Len(parts) = 1
    THEN parts[1] \in (PHYSICAL_DAMAGE_TYPES \cup ENERGY_DAMAGE_TYPES)
    ELSE FALSE

\* StatBlockValidator.validate_damage_resistances: raises at the first token
\* that is not valid.
ValidateDamageResistances(v) ==
    LET bad == {i \in 1..Len(v) : ~ ValidateDamageType(v[i])}
    IN  IF bad = {} THEN {}
        ELSE LET first == CHOOSE i \in bad : \A j \in bad : i <= j
             IN  {ErrAt("damage_resistances", first, "", "Invalid damage resistance type")}

----------------------------------------------------------------------------
(* Regional effects *)

\* RegionalEffectMechanics: save_dc: int = Field(ge=1, le=30); every effect of
\* the list is validated and its errors are collected.
MechanicsErrors(effects) ==
    {ErrAt("regional_effects.effects.mechanics.save_dc", i, "", "out of range") :
        i \in {j \in 1..Len(effects) :
                 /\ ~ IsNone(effects[j].mechanics)
                 /\ ~ (1 <= Val(effects[j].mechanics).save_dc
                        /\ Val(effects[j].mechanics).save_dc <= 30)}}

\* StatBlockValidator.validate_regional_effects(v, info), mode='after'
ValidateRegionalEffects(v, data) ==
    LET abilities == Get(data, "abilities", EmptyDict)
        proficiency == IF HasKey(data, "proficiency_bonus")
                       THEN Some(data["proficiency_bonus"]) ELSE None
        checked == {i \in 1..Len(v) :
                      ~ IsNone(v[i].mechanics) /\ Val(v[i].mechanics).save_dc # 0}
        \* abilities.get(save_type, {}).get('modifier', 0): an AbilityScore
        \* model has no get()
        raises(i) ==
            \/ HasKey(abilities, Val(v[i].mechanics).save_type)
            \/ Val(v[i].mechanics).save_dc # 8 + Val(proficiency) + 0
        bad == {i \in checked : raises(i)}
    IN  IF \A i \in 1..Len(v) : IsNone(v[i].mechanics) THEN {}
        ELSE IF DOMAIN abilities = {} \/ IsNone(proficiency) THEN {}
        ELSE IF bad = {} THEN {}
        ELSE LET first == CHOOSE i \in bad : \A j \in bad : i <= j
             IN  IF HasKey(abilities, Val(v[first].mechanics).save_type)
                 THEN {Err("regional_effects", "AttributeError")}
                 ELSE {ErrAt("regional_effects", first, v[first].name, "Save DC does not match expected DC")}

----------------------------------------------------------------------------
(* Senses *)

\* The keys of Senses.model_dump() that validate_senses checks, in field order
SenseKeys == << "darkvision", "blindsight", "tremorsense", "truesight", "passive_perception" >>

\* The check validate_senses applies to one key; None is skipped
SenseValueBad(key, value) ==
    /\ ~ IsNone(value)
    /\ IF key = "passive_perception"
       THEN ~ (0 <= Val(value) /\ Val(value) <= 30)
       ELSE Val(value) % 5 # 0 \/ ~ (0 <= Val(value) /\ Val(value) <= 120)

\* StatBlockValidator.validate_senses: raises at the first key whose value is
\* out of range.
ValidateSenses(v) ==
    LET bad == {i \in 1..Len(SenseKeys) : SenseValueBad(SenseKeys[i], v[SenseKeys[i]])}
    IN  IF bad = {} THEN {}
        ELSE LET first == CHOOSE i \in bad : \A j \in bad : i <= j
             IN  {ErrAt("senses", first, SenseKeys[first], "out of range")}

\* A Senses value with the given darkvision and passive_perception
SensesOf(darkvision, passive_perception) ==
    [k \in {SenseKeys[i] : i \in 1..Len(SenseKeys)} |->
        IF k = "darkvision" THEN darkvision
        ELSE IF k = "passive_perception" THEN Some(passive_perception)
        ELSE None]

----------------------------------------------------------------------------
(* StatBlockValidator *)

\* The fields StatBlockValidator declares, in declaration order
DeclaredFields ==
    << "metadata", "creature_info", "core_stats", "abilities", "proficiency",
       "defenses", "senses", "languages", "traits", "spellcasting", "actions",
       "legendary_actions", "lair_actions", "regional_effects", "description",
       "additional_info" >>

DeclaredFieldSet == {DeclaredFields[i] : i \in 1..Len(DeclaredFields)}

\* Declared without a default (Optional[Defenses] has none either)
RequiredFields ==
    {"metadata", "creature_info", "core_stats", "abilities", "proficiency",
     "defenses", "senses", "languages", "actions"}

\* The field each @field_validator of StatBlockValidator is registered for
ValidatorField ==
    [validate_alignment |-> "alignment",
     validate_armor_class |-> "armor_class",
     validate_hit_points |-> "hit_points",
     validate_speed |-> "speed",
     validate_proficiency_bonus |-> "proficiency_bonus",
     validate_senses |-> "senses",
     validate_regional_effects |-> "regional_effects",
     validate_damage_resistances |-> "damage_resistances",
     validate_damage_immunities |-> "damage_immunities"]

\* A field validator is called when the field it is registered for is
\* validated, so one registered for a name that is not a declared field is
\* never called: an undeclared key of the input is an extra (Config.extra =
\* 'allow') and is stored without validation.  (pydantic also checks the
\* registered names when the class is defined and refuses a class with such a
\* validator; the model takes the class as defined, which is the reading under
\* which StatBlockValidator gives an outcome at all.)
ValidatorRuns(name, rec) ==
    /\ ValidatorField[name] \in DeclaredFieldSet
    /\ HasKey(rec, ValidatorField[name])

PositionOf(f) == CHOOSE i \in 1..Len(DeclaredFields) : DeclaredFields[i] = f

\* Errors of the type (sub-model) validation of one declared field
TypeErrors(rec, f) ==
    IF ~ HasKey(rec, f) THEN {}
    ELSE IF f = "creature_info" THEN ChallengeRatingErrors(rec[f].challenge_rating)
    ELSE IF f = "spellcasting"
    THEN (IF IsNone(rec[f]) THEN {} ELSE SpellcastingErrors(Val(rec[f])))
    ELSE IF f = "regional_effects"
    THEN (IF IsNone(rec[f]) THEN {} ELSE MechanicsErrors(Val(rec[f]).effects))
    ELSE {}

\* info.data of a field validator of field f: the declared fields before f
\* that are in the input and were validated without error.
InfoData(rec, f) ==
    [k \in {DeclaredFields[i] : i \in 1..(PositionOf(f) - 1)}
            \cap {g \in DOMAIN rec : TypeErrors(rec, g) = {}} |-> rec[k]]

\* StatBlockValidator(**rec): every declared field is validated and the errors
\* of all fields are reported together.
StatBlockErrors(rec) ==
    LET missing == {Err(f, "Field required") : f \in RequiredFields \ DOMAIN rec}
        typed == UNION {TypeErrors(rec, f) : f \in DeclaredFieldSet}
        prof == IF ValidatorRuns("validate_proficiency_bonus", rec)
                THEN ValidateProficiencyBonus(rec["proficiency_bonus"],
                                              InfoData(rec, "proficiency_bonus"))
                ELSE {}
        regional == IF /\ ValidatorRuns("validate_regional_effects", rec)
                       /\ TypeErrors(rec, "regional_effects") = {}
                       /\ ~ IsNone(rec["regional_effects"])
                    THEN ValidateRegionalEffects(Val(rec["regional_effects"]).effects,
                                                 InfoData(rec, "regional_effects"))
                    ELSE {}
        resist == IF ValidatorRuns("validate_damage_resistances", rec)
                  THEN ValidateDamageResistances(rec["damage_resistances"])
                  ELSE {}
        senses == IF ValidatorRuns("validate_senses", rec)
                  THEN ValidateSenses(rec["senses"])
                  ELSE {}
    IN  missing \cup typed \cup prof \cup regional \cup resist \cup senses

\* The Schema Validator accepts a record when it reports no error
Accepts(rec) == StatBlockErrors(rec) = {}

----------------------------------------------------------------------------
(* Rich-text documents *)

SubheaderKinds == {"absent", "unparseable", "ok"}

\* Ratings and source XP annotations of the Challenge lines of the documents
DocRatings ==
    {StrRating(0, 0), StrRating(1, 4), StrRating(1, 0), StrRating(5, 0), StrRating(31, 0)}
SrcXps == {50, 1800}

\* The second row of the ability-score table, as modifiers
AbilityTables ==
    {[strength |-> 3, dexterity |-> 1, wisdom |-> 0],
     [strength |-> 3, dexterity |-> 1, wisdom |-> 2]}

\* Entries of the actions section: no attack roll, a weapon attack roll, a
\* spell attack roll
ActionKinds == {"plain", "weapon", "spell_attack"}

\* The spellcasting trait of the traits section: none, one that states
\* "spellcasting ability is +3", one that does not state its modifier
SpellKinds == {"none", "explicit", "fallback"}

OptionalSectionSets ==
    {{}, {"regional_effects"}, {"legendary_actions", "lair_actions", "description"}}

SeqsUpTo(S, n) == UNION {[1..k -> S] : k \in 0..n}

Docs ==
    [header : BOOLEAN,
     subheader : SubheaderKinds,
     challenge : {None} \cup {Some([rating |-> r, srcXp |-> x]) : r \in DocRatings, x \in SrcXps},
     abilities : {None} \cup {Some(t) : t \in AbilityTables},
     spell : SpellKinds,
     actions : SeqsUpTo(ActionKinds, MaxActions),
     optional : OptionalSectionSets]

NoDoc ==
    [header |-> FALSE, subheader |-> "absent", challenge |-> None, abilities |-> None,
     spell |-> "none", actions |-> << >>, optional |-> {}]

\* The keys of the map extract_text_from_docx returns for the document
Sections(d) ==
    (IF d.header THEN {"header"} ELSE {})
        \cup (IF d.subheader # "absent" THEN {"subheader"} ELSE {})
        \cup (IF ~ IsNone(d.challenge) THEN {"corestats"} ELSE {})
        \cup (IF d.spell # "none" THEN {"traits"} ELSE {})
        \cup (IF d.actions # << >> THEN {"actions"} ELSE {})
        \cup d.optional

----------------------------------------------------------------------------
(* Stages of the Record Assembler.  A stage maps the record and the         *)
(* document to the record it leaves, or raises.                             *)

Ok(rec) == [ok |-> TRUE, rec |-> rec, exc |-> "", key |-> ""]
Raise(rec, exc, key) == [ok |-> FALSE, rec |-> rec, exc |-> exc, key |-> key]

\* convert_docx_to_schema, the dict literal assigned to self.current_creature
InitialRecord(d) ==
    [k \in {"metadata", "damage_resistances", "damage_immunities",
            "condition_immunities", "senses", "languages", "description",
            "additional_info"} |->
        IF k = "metadata" THEN Some("header")
        ELSE IF k = "senses" THEN SensesOf(None, 10)
        ELSE << >>]

\* Lines 88-121: segment the document and build the initial record;
\* sections['header'] raises KeyError without a level-1 paragraph.
BeginResult(rec, d) ==
    IF "header" \notin Sections(d)
    THEN Raise(rec, "KeyError", "header")
    ELSE Ok(InitialRecord(d))

\* _process_subheader when the segmenter supplies a default for an absent
\* subheader and the grammar lets it through
SubheaderResult_Lenient(rec, d) ==
    IF d.subheader = "unparseable" THEN Raise(rec, "ValueError", "creature type line")
    ELSE Ok(Update(rec, [k \in {"size", "type", "subtype", "alignment"} |-> Some(k)]))

\* _process_subheader(sections['subheader'])
SubheaderResult(rec, d) ==
    IF "subheader" \notin Sections(d) THEN Raise(rec, "KeyError", "subheader")
    ELSE IF d.subheader = "unparseable" THEN Raise(rec, "ValueError", "creature type line")
    ELSE Ok(Update(rec, [k \in {"size", "type", "subtype", "alignment"} |-> Some(k)]))

\* _process_core_stats: the Challenge line
CoreStatsResult(rec, d) ==
    IF IsNone(d.challenge) THEN Ok(rec)
    ELSE Ok(Update(rec, [k \in {"challenge_rating"} |->
                ChallengeEntry(Val(d.challenge).rating, Val(d.challenge).srcXp)]))

\* The six ability names the table branch of _process_abilities writes
ABILITIES ==
    {"strength", "dexterity", "constitution", "intelligence", "wisdom", "charisma"}

AbilitiesOf(t) ==
    [a \in ABILITIES |->
        [modifier |-> IF a = "strength" THEN t.strength
                      ELSE IF a = "dexterity" THEN t.dexterity
                      ELSE IF a = "wisdom" THEN t.wisdom
                      ELSE 0]]

\* _process_abilities: abilities stays {} without an ability-score table
AbilitiesResult(rec, d) ==
    Ok(Update(rec,
        [k \in {"abilities", "saving_throws", "skills"} |->
            IF k = "abilities"
            THEN (IF IsNone(d.abilities) THEN EmptyDict ELSE AbilitiesOf(Val(d.abilities)))
            ELSE None]))

\* _process_defenses and _process_senses_and_languages: the documents have no
\* defense, senses or languages line
DefensesResult(rec, d) == Ok(rec)

\* SpellcastingParser.parse_spellcasting_trait(text, abilities) for a trait
\* that names no ability (wisdom by default): the explicit modifier or 0
ExplicitModifier(kind) == IF kind = "explicit" THEN 3 ELSE 0

SpellcastingResult(rec, kind) ==
    LET abilities == rec["abilities"]
        stated == ExplicitModifier(kind)
    IN  IF ~ HasKey(rec, "abilities") THEN Raise(rec, "KeyError", "abilities")
        ELSE IF stated # 0
        THEN Ok(Update(rec, [k \in {"spellcasting"} |->
                    Some([dc |-> 10, attack_bonus |-> 0, base_modifier |-> stated])]))
        ELSE IF ~ HasKey(abilities, "wisdom") THEN Raise(rec, "KeyError", "wisdom")
        ELSE IF abilities["wisdom"].modifier = 0
        THEN Raise(rec, "ValueError", "Spellcasting ability modifier not found")
        ELSE Ok(Update(rec, [k \in {"spellcasting"} |->
                    Some([dc |-> 10, attack_bonus |-> 0,
                          base_modifier |-> abilities["wisdom"].modifier])]))

\* The bold names a traits or actions section can open an entry with
PlainNames == {"Keen Smell", "Amphibious"}
SpellcastingNames == {"Spellcasting", "Innate Spellcasting"}

\* The entries of a section: a name and a description; the description of a
\* spellcasting entry states its modifier or does not
TraitEntries ==
    [name : PlainNames, description : {"text"}]
        \cup [name : SpellcastingNames, description : SpellKinds \ {"none"}]

\* 'spellcasting' in current_trait['name'].lower()
NameHasSpellcasting(name) == name \in SpellcastingNames

\* SpellcastingParser._determine_casting_type on the combined text
\* f'{name} {description}': the descriptions name no casting type
DetermineCastingType(name) ==
    IF name = "Innate Spellcasting" THEN "Innate" ELSE "Regular"

\* The step a section takes for one finished entry, with everything appended
\* and nothing diverted
EntryStep_Append(rec, e, acc) == [res |-> Ok(rec), list |-> Append(acc, e)]

\* The step a section takes for one finished entry: a spellcasting entry goes
\* to the parser as name and description together and fills spellcasting,
\* any other entry is appended
EntryStep(rec, e, acc) ==
    IF NameHasSpellcasting(e.name)
    THEN LET r == SpellcastingResult(rec, e.description)
         IN  IF ~ r.ok THEN [res |-> r, list |-> acc]
             ELSE [res |-> Ok(Update(r.rec, [k \in {"spellcasting"} |->
                              Some([type |-> DetermineCastingType(e.name),
                                    dc |-> Val(r.rec["spellcasting"]).dc,
                                    attack_bonus |-> Val(r.rec["spellcasting"]).attack_bonus,
                                    base_modifier |-> Val(r.rec["spellcasting"]).base_modifier])])),
                   list |-> acc]
    ELSE [res |-> Ok(rec), list |-> Append(acc, e)]

\* The loop over the entries of a section, in document order
RECURSIVE DivertEntries(_, _, _)
DivertEntries(rec, entries, acc) ==
    IF entries = << >> THEN [res |-> Ok(rec), list |-> acc]
    ELSE LET step == EntryStep(rec, Head(entries), acc)
         IN  IF ~ step.res.ok THEN step
             ELSE DivertEntries(step.res.rec, Tail(entries), step.list)

\* The entries of the traits section of a document: a spellcasting trait or
\* nothing
TraitEntriesOf(d) ==
    IF d.spell = "none" THEN << >>
    ELSE << [name |-> "Spellcasting", description |-> d.spell] >>

\* The traits list a section leaves: traits if traits else None
TraitsValue(list) == IF list = << >> THEN None ELSE Some(list)

\* _process_traits
TraitsResult(rec, d) ==
    LET r == DivertEntries(rec, TraitEntriesOf(d), << >>)
    IN  IF r.res.ok
        THEN Ok(Update(r.res.rec, [k \in {"traits"} |-> TraitsValue(r.list)]))
        ELSE r.res

\* The reads of the weapon branch of _process_actions (lines 502-504), in
\* order: a path into self.current_creature
WeaponReads ==
    << << "abilities", "str" >>, << "abilities", "dex" >>, << "proficiency_bonus" >> >>

\* Whether the record has the path
HasPath(rec, path) ==
    /\ HasKey(rec, path[1])
    /\ (Len(path) = 1 \/ HasKey(rec[path[1]], path[2]))

\* The first read of the sequence that raises KeyError, 0 if none does
FirstMissing(rec, reads) ==
    LET missing == {i \in 1..Len(reads) : ~ HasPath(rec, reads[i])}
    IN  IF missing = {} THEN 0 ELSE CHOOSE i \in missing : \A j \in missing : i <= j

\* _process_actions on the actions section: entries are processed in order
\* and the first weapon attack whose reads fail raises
ActionsResult(rec, d) ==
    LET weapons == {i \in 1..Len(d.actions) : d.actions[i] = "weapon"}
        m == FirstMissing(rec, WeaponReads)
    IN  IF weapons # {} /\ m # 0
        THEN Raise(rec, "KeyError", WeaponReads[m][Len(WeaponReads[m])])
        ELSE Ok(Update(rec, [k \in {"actions"} |-> d.actions]))

\* The section identifiers of the optional sections
OptionalKeys == {"legendary_actions", "lair_actions", "regional_effects", "description"}

\* The optional sections read as sections[key] without the membership test
OptionalResult_Unguarded(rec, d) ==
    IF OptionalKeys \ Sections(d) # {}
    THEN Raise(rec, "KeyError", CHOOSE k \in OptionalKeys \ Sections(d) : TRUE)
    ELSE Ok(Update(rec, [k \in d.optional |->
            IF k = "regional_effects" THEN Some([effects |-> << >>]) ELSE Some(k)]))

\* The optional sections: each parser runs only if its key is in the map
OptionalResult(rec, d) ==
    Ok(Update(rec, [k \in d.optional |->
            IF k = "regional_effects" THEN Some([effects |-> << >>]) ELSE Some(k)]))

\* _validate_converted_data: StatBlockValidator(**self.current_creature),
\* the exception is printed and raised again
ValidationResult(rec, d) ==
    IF Accepts(rec) THEN Ok(rec) ELSE Raise(rec, "ValidationError", "")

----------------------------------------------------------------------------
(* The Record Assembler: convert_docx_to_schema, one action per stage *)

Terminal == {"VALIDATED", "FAILED"}

\* A stage whose exception is swallowed: the run goes on with the next stage
Advance_Swallow(from, to, stage, res) ==
    /\ mode = "docx"
    /\ state = from
    /\ executed' = Append(executed, stage)
    /\ current_creature' = res.rec
    /\ state' = to
    /\ failure' = IF res.ok THEN failure
                  ELSE Some([stage |-> stage, exc |-> res.exc, key |-> res.key])

\* One stage of convert_docx_to_schema: it runs in state `from`; when it
\* returns, the run is in state `to`, and when it raises, the exception leaves
\* convert_docx_to_schema and the run is FAILED.
Advance(from, to, stage, res) ==
    /\ mode = "docx"
    /\ state = from
    /\ executed' = Append(executed, stage)
    /\ current_creature' = res.rec
    /\ state' = IF res.ok THEN to ELSE "FAILED"
    /\ failure' = IF res.ok THEN failure
                  ELSE Some([stage |-> stage, exc |-> res.exc, key |-> res.key])

BeginConvert ==
    /\ Advance("CREATED", "INIT", "begin", BeginResult(current_creature, doc))
    /\ UNCHANGED << mode, doc, returned, accepted, output_files, script_done, pdfVars, valVars, runs >>

ProcessSubheader ==
    /\ Advance("INIT", "SUBHEADER_PARSED", "subheader", SubheaderResult(current_creature, doc))
    /\ UNCHANGED << mode, doc, returned, accepted, output_files, script_done, pdfVars, valVars, runs >>

ProcessCoreStats ==
    /\ Advance("SUBHEADER_PARSED", "CORE_PARSED", "core_stats", CoreStatsResult(current_creature, doc))
    /\ UNCHANGED << mode, doc, returned, accepted, output_files, script_done, pdfVars, valVars, runs >>

ProcessAbilities ==
    /\ Advance("CORE_PARSED", "ABILITIES_PARSED", "abilities", AbilitiesResult(current_creature, doc))
    /\ UNCHANGED << mode, doc, returned, accepted, output_files, script_done, pdfVars, valVars, runs >>

ProcessDefenses ==
    /\ Advance("ABILITIES_PARSED", "DEFENSES_PARSED", "defenses", DefensesResult(current_creature, doc))
    /\ UNCHANGED << mode, doc, returned, accepted, output_files, script_done, pdfVars, valVars, runs >>

ProcessTraits ==
    /\ Advance("DEFENSES_PARSED", "TRAITS_PARSED", "traits", TraitsResult(current_creature, doc))
    /\ UNCHANGED << mode, doc, returned, accepted, output_files, script_done, pdfVars, valVars, runs >>

ProcessActions ==
    /\ Advance("TRAITS_PARSED", "ACTIONS_PARSED", "actions", ActionsResult(current_creature, doc))
    /\ UNCHANGED << mode, doc, returned, accepted, output_files, script_done, pdfVars, valVars, runs >>

ProcessOptionalSections ==
    /\ Advance("ACTIONS_PARSED", "OPTIONAL_SECTIONS_PARSED", "optional_sections",
               OptionalResult(current_creature, doc))
    /\ UNCHANGED << mode, doc, returned, accepted, output_files, script_done, pdfVars, valVars, runs >>

\* _validate_converted_data and `return self.current_creature`
ValidateConvertedData ==
    LET res == ValidationResult(current_creature, doc)
    IN  /\ Advance("OPTIONAL_SECTIONS_PARSED", "VALIDATED", "validation", res)
        /\ returned' = IF res.ok THEN Some(current_creature) ELSE returned
        /\ accepted' = IF res.ok THEN accepted \cup {current_creature} ELSE accepted
        /\ UNCHANGED << mode, doc, output_files, script_done, pdfVars, valVars, runs >>

\* conversion-script.py, the try block around convert_docx_to_schema: the
\* returned record is dumped to the output file; an exception is printed.
ScriptFinish ==
    /\ mode = "docx"
    /\ state \in Terminal
    /\ ~ script_done
    /\ script_done' = TRUE
    /\ output_files' =
          IF state = "VALIDATED"
          THEN {f \in output_files : f.path # "output"}
                   \cup {[path |-> "output", record |-> Val(returned)]}
          ELSE output_files
    /\ UNCHANGED << mode, asmVars, accepted, pdfVars, valVars, runs >>

----------------------------------------------------------------------------
(* The PDF driver: pdf_statblock_converter.main *)

PdfNames == {"aboleth", "bandit"}

\* A stat block found between the block markers: its first line (the name),
\* whether its second line matches the subheader grammar, and its CR line
PdfBlocks ==
    [name : PdfNames, subheader_ok : BOOLEAN,
     rating : {StrRating(1, 4), StrRating(5, 0)}]

\* StatBlockExtractor.parse_monster_stat_block
ParseMonsterStatBlock(block) ==
    IF ~ block.subheader_ok
    THEN Raise(EmptyDict, "ValueError", "creature type line")
    ELSE Ok([k \in {"metadata", "creature_info", "core_stats", "abilities",
                    "proficiencies", "defenses", "senses", "languages", "actions"} |->
                IF k = "metadata" THEN [name |-> block.name]
                ELSE IF k = "creature_info"
                THEN [cr |-> ParseChallengeRating(block.rating, 0)]
                ELSE [name |-> k]])

\* One iteration of the loop of main(): parse the block, save it as YAML.
\* An exception of the parser is not caught and ends main().
PdfProcessBlock ==
    /\ mode = "pdf"
    /\ IsNone(failure)
    /\ pdf_i <= Len(pdf_blocks)
    /\ LET res == ParseMonsterStatBlock(pdf_blocks[pdf_i])
       IN  IF res.ok
           THEN /\ output_files' =
                      {f \in output_files : f.path # res.rec["metadata"].name}
                          \cup {[path |-> res.rec["metadata"].name, record |-> res.rec]}
                /\ pdf_i' = pdf_i + 1
                /\ failure' = failure
           ELSE /\ failure' = Some([stage |-> "parse_monster_stat_block",
                                    exc |-> res.exc, key |-> res.key])
                /\ UNCHANGED << output_files, pdf_i >>
    /\ UNCHANGED << mode, doc, state, current_creature, returned, executed,
                    accepted, script_done, pdf_blocks, valVars, runs >>

----------------------------------------------------------------------------
(* The conversion programs *)

NoValidation == /\ vop = "none" /\ vin = None /\ vout = {}

InitDocx ==
    /\ mode = "docx"
    /\ doc \in Docs
    /\ pdf_blocks = << >>

InitPdf ==
    /\ mode = "pdf"
    /\ doc = NoDoc
    /\ pdf_blocks \in SeqsUpTo(PdfBlocks, MaxBlocks)

Init ==
    /\ InitDocx \/ InitPdf
    /\ state = "CREATED"
    /\ current_creature = EmptyDict
    /\ returned = None
    /\ failure = None
    /\ executed = << >>
    /\ accepted = {}
    /\ output_files = {}
    /\ script_done = FALSE
    /\ pdf_i = 1
    /\ NoValidation
    /\ runs = << >>

Next ==
    \/ BeginConvert
    \/ ProcessSubheader
    \/ ProcessCoreStats
    \/ ProcessAbilities
    \/ ProcessDefenses
    \/ ProcessTraits
    \/ ProcessActions
    \/ ProcessOptionalSections
    \/ ValidateConvertedData
    \/ ScriptFinish
    \/ PdfProcessBlock

Spec == Init /\ [][Next]_vars

----------------------------------------------------------------------------
(* The stages as a function of the document *)

\* The stages of convert_docx_to_schema in the order of its statements
StageOrder ==
    << "begin", "subheader", "core_stats", "abilities", "defenses", "traits",
       "actions", "optional_sections", "validation" >>

StageResult(stage, rec, d) ==
    IF stage = "begin" THEN BeginResult(rec, d)
    ELSE IF stage = "subheader" THEN SubheaderResult(rec, d)
    ELSE IF stage = "core_stats" THEN CoreStatsResult(rec, d)
    ELSE IF stage = "abilities" THEN AbilitiesResult(rec, d)
    ELSE IF stage = "defenses" THEN DefensesResult(rec, d)
    ELSE IF stage = "traits" THEN TraitsResult(rec, d)
    ELSE IF stage = "actions" THEN ActionsResult(rec, d)
    ELSE IF stage = "optional_sections" THEN OptionalResult(rec, d)
    ELSE ValidationResult(rec, d)

\* The outcome of the first n stages on document d, run alone on a fresh converter
RECURSIVE RunAlone(_, _)
RunAlone(d, n) ==
    IF n = 0 THEN Ok(EmptyDict)
    ELSE LET prev == RunAlone(d, n - 1)
         IN  IF prev.ok THEN StageResult(StageOrder[n], prev.rec, d) ELSE prev

----------------------------------------------------------------------------
(* Claims about the conversion programs *)

\* A well-formed document: header and subheader present, a Challenge line
\* with a canonical rating, the ability-score table, no trait whose derived
\* values are inconsistent.
WellFormed(d) ==
    /\ d.header
    /\ d.subheader = "ok"
    /\ ~ IsNone(d.challenge)
    /\ Val(d.challenge).rating \in CanonicalRatings
    /\ ~ IsNone(d.abilities)
    /\ d.spell = "none"

\* C1: the conversion of a well-formed document ends in VALIDATED, not in
\* FAILED.
C1_WellFormedEndsValidated ==
    (mode = "docx" /\ WellFormed(doc) /\ state \in Terminal) => state = "VALIDATED"

\* C2: every record written to an output file has been accepted by the Schema
\* Validator, on the rich-text path and on the PDF path.
C2_WrittenOnlyIfAccepted ==
    \A f \in output_files : f.record \in accepted

\* C3: the stages run in the fixed order; once a stage has raised, the run is
\* FAILED, the raising stage is the last one that ran, and no record is
\* returned; a record is returned only by a run that is VALIDATED.
C3_FixedOrderFailStop ==
    mode = "docx" =>
        /\ Len(executed) <= Len(StageOrder)
        /\ \A i \in 1..Len(executed) : executed[i] = StageOrder[i]
        /\ ~ IsNone(failure) =>
              /\ state = "FAILED"
              /\ IsNone(returned)
              /\ executed[Len(executed)] = Val(failure).stage
        /\ state = "FAILED" => ~ IsNone(failure)
        /\ ~ IsNone(returned) => state = "VALIDATED"

\* C3 witness: a stage in the middle of the pipeline has raised
C3_Witness ==
    /\ mode = "docx"
    /\ state = "FAILED"
    /\ ~ IsNone(failure)
    /\ Val(failure).stage = "traits"
    /\ executed = SubSeq(StageOrder, 1, 6)

\* C4: when the action stage is about to run on a document that has the
\* ability-score table, a Challenge line and a weapon attack, every path the
\* weapon branch reads (strength and dexterity modifier, proficiency bonus)
\* is in the record.
C4_WeaponReadsWritten ==
    (/\ mode = "docx"
     /\ state = "TRAITS_PARSED"
     /\ ~ IsNone(doc.abilities)
     /\ ~ IsNone(doc.challenge)
     /\ \E i \in 1..Len(doc.actions) : doc.actions[i] = "weapon")
        => FirstMissing(current_creature, WeaponReads) = 0

\* The document with the XP annotation of its Challenge line replaced
WithSrcXp(d, x) ==
    [d EXCEPT !.challenge = Some([rating |-> Val(d.challenge).rating, srcXp |-> x])]

\* Source XP annotations, right and wrong, one of them no document of Docs has
AltSrcXps == SrcXps \cup {0, 7}

\* C7: the XP written in the Challenge line has no influence: at every point
\* of the run the record and the outcome are those of the run on the same
\* document with any other XP annotation, and the xp of the record is the
\* table value of the rating.
C7_SourceXpDiscarded ==
    (mode = "docx" /\ ~ IsNone(doc.challenge)) =>
        /\ \A x \in AltSrcXps :
              LET other == RunAlone(WithSrcXp(doc, x), Len(executed))
              IN  /\ other.rec = current_creature
                  /\ other.ok = (state # "FAILED")
        /\ (HasKey(current_creature, "challenge_rating")
              /\ current_creature["challenge_rating"].rating \in CanonicalRatings)
             => current_creature["challenge_rating"].xp
                   = CanonicalXp(current_creature["challenge_rating"].rating)

\* C7 witness: the core stage has stored a challenge rating whose XP differs
\* from the XP annotation of the source line
C7_Witness ==
    /\ mode = "docx"
    /\ state = "CORE_PARSED"
    /\ ~ IsNone(doc.challenge)
    /\ HasKey(current_creature, "challenge_rating")
    /\ current_creature["challenge_rating"].xp # Val(doc.challenge).srcXp
    /\ current_creature["challenge_rating"].xp = 1800

----------------------------------------------------------------------------
(* Attacks *)

\* Python truth of an Optional[str]: None and "" are false
Truthy(x) == ~ IsNone(x) /\ Val(x) # ""

\* Attack.validate_attack_types(v, info), registered for is_melee and is_ranged
ValidateAttackTypes(field, v, data) ==
    IF ~ v /\ ~ Get(data, "is_melee", FALSE) /\ ~ Get(data, "is_ranged", FALSE)
    THEN {Err(field, "Attack must be either melee, ranged, or both")}
    ELSE {}

ValidateReach_Never(v, data) == {}

\* Attack.validate_reach(v, info)
ValidateReach(v, data) ==
    IF Truthy(v) /\ ~ Get(data, "is_melee", FALSE)
    THEN {Err("reach", "Reach can only be specified for melee attacks")}
    ELSE {}

\* Attack.validate_range(v, info)
ValidateRange(v, data) ==
    IF Truthy(v) /\ ~ Get(data, "is_ranged", FALSE)
    THEN {Err("range", "Range can only be specified for ranged attacks")}
    ELSE {}

\* info.data of an Attack field: the flags validated before it without error
AttackInfoData(a, ok) == [k \in ok |-> a[k]]

\* Attack(**a) for an attack whose weapon_type, bonus, ability_used and
\* magical_bonus are valid: is_melee, is_ranged, reach and range in
\* declaration order.
AttackErrors(a) ==
    LET e_melee == ValidateAttackTypes("is_melee", a.is_melee, EmptyDict)
        ok1 == IF e_melee = {} THEN {"is_melee"} ELSE {}
        e_ranged == ValidateAttackTypes("is_ranged", a.is_ranged, AttackInfoData(a, ok1))
        ok2 == IF e_ranged = {} THEN ok1 \cup {"is_ranged"} ELSE ok1
        e_reach == ValidateReach(a.reach, AttackInfoData(a, ok2))
        e_range == ValidateRange(a.range, AttackInfoData(a, ok2))
    IN  e_melee \cup e_ranged \cup e_reach \cup e_range

\* The attack part of an entry text, as the attack pattern and the substring
\* tests of parse_attack see it: the words before "Attack", the distance
\* matched by the second group and the one matched by the third (each with
\* its label), and whether the rest of the text holds "melee" or "range".
Distances ==
    {None, Some([label |-> "reach", value |-> "5 ft."]),
     Some([label |-> "range", value |-> "20/60 ft."])}

AttackTexts ==
    [kind : {"none", "Melee", "Ranged", "Melee or Ranged"},
     group2 : Distances, group3 : Distances,
     rest_melee : BOOLEAN, rest_range : BOOLEAN]

\* 'melee' in text.lower()
TextHasMelee(t) == t.kind \in {"Melee", "Melee or Ranged"} \/ t.rest_melee

\* 'range' in text.lower(): "Ranged" and a "range" label hold it too
TextHasRange(t) ==
    \/ t.kind \in {"Ranged", "Melee or Ranged"}
    \/ t.rest_range
    \/ \E g \in {t.group2, t.group3} : ~ IsNone(g) /\ Val(g).label = "range"

GroupValue(g) == IF IsNone(g) THEN None ELSE Some(Val(g).value)

\* ActionsParser.parse_attack(text): None when the pattern does not match.
\* The third group can only match right after the second.
ParseAttack(t) ==
    IF t.kind = "none" THEN None
    ELSE LET is_melee == TextHasMelee(t)
             is_ranged == TextHasRange(t)
             g2 == GroupValue(t.group2)
             g3 == IF IsNone(t.group2) THEN None ELSE GroupValue(t.group3)
         IN  Some([is_melee |-> is_melee,
                   is_ranged |-> is_ranged,
                   reach |-> IF is_melee THEN g2 ELSE None,
                   range |-> IF is_ranged THEN (IF Truthy(g3) THEN g3 ELSE g2) ELSE None])

----------------------------------------------------------------------------
(* Usage *)

\* What the usage patterns find in a lower-cased text: for each pattern the
\* numbers of its first match, or None when it matches nowhere.
UsageTexts ==
    [recharge : {None, Some([start |-> 5, end |-> None]),
                 Some([start |-> 5, end |-> Some(6)]),
                 Some([start |-> 7, end |-> None])},
     per_day : {None, Some([times |-> 3, in_lair |-> None]),
                Some([times |-> 1, in_lair |-> Some(3)])},
     per_short_rest : {None, Some(2)},
     per_long_rest : {None, Some(1)},
     costs : {None, Some(2), Some(25)},
     other : {None, Some("in dragon form only")}]

\* list(range(a, b + 1))
PyRange(a, b) == [i \in 1..(IF b >= a THEN b - a + 1 ELSE 0) |-> a + i - 1]

\* A dict of a usage: the keys the branch writes
UsageDict(type, keys, value, times, range) ==
    [k \in {"type"} \cup keys |->
        IF k = "type" THEN type
        ELSE IF k = "value" THEN value
        ELSE IF k = "times" THEN times
        ELSE IF k = "range" THEN range
        ELSE None]

\* UsageParser.parse_usage(description): the first pattern that matches, in
\* the order recharge, per day, per short rest, per long rest, costs, other.
ParseUsage(t) ==
    IF ~ IsNone(t.recharge)
    THEN LET start == Val(t.recharge).start
             end == IF IsNone(Val(t.recharge).end) THEN start ELSE Val(Val(t.recharge).end)
         IN  Some(UsageDict("recharge", {"value", "range"},
                            IF start = end THEN Some(start) ELSE None, None,
                            IF start # end THEN Some(PyRange(start, end)) ELSE None))
    ELSE IF ~ IsNone(t.per_day)
    THEN Some(UsageDict("per_day",
                        IF IsNone(Val(t.per_day).in_lair) THEN {"times"}
                        ELSE {"times", "times_in_lair"},
                        None, Some(Val(t.per_day).times), None))
    ELSE IF ~ IsNone(t.per_short_rest)
    THEN Some(UsageDict("per_short_rest", {"times"}, None, t.per_short_rest, None))
    ELSE IF ~ IsNone(t.per_long_rest)
    THEN Some(UsageDict("per_long_rest", {"times"}, None, t.per_long_rest, None))
    ELSE IF ~ IsNone(t.costs)
    THEN Some(UsageDict("costs", {"value"}, t.costs, None, None))
    ELSE IF ~ IsNone(t.other)
    THEN Some(UsageDict("other", {"description"}, None, None, None))
    ELSE None

\* class UsageType
UsageType == {"recharge", "per_day", "per_short_rest", "per_long_rest", "costs"}

\* Usage.validate_value(v, info)
ValidateUsageValue(v, data) ==
    IF IsNone(v) THEN {}
    ELSE IF Get(data, "type", "") = "costs" /\ ~ (1 <= Val(v) /\ Val(v) <= 20)
    THEN {Err("value", "Cost value must be between 1 and 20")}
    ELSE IF Get(data, "type", "") = "recharge" /\ ~ (1 <= Val(v) /\ Val(v) <= 6)
    THEN {Err("value", "Recharge value must be between 1 and 6")}
    ELSE {}

\* Usage.validate_times(v, info)
ValidateUsageTimes(v) ==
    IF ~ IsNone(v) /\ ~ (1 <= Val(v) /\ Val(v) <= 10)
    THEN {Err("times", "Times value must be between 1 and 10")}
    ELSE {}

\* Usage.validate_range(v): the lists of the parser are sorted runs, so a
\* non-empty one is consecutive; min() of an empty one raises ValueError.
ValidateUsageRange(v) ==
    IF IsNone(v) THEN {}
    ELSE IF \E i \in 1..Len(Val(v)) : ~ (1 <= Val(v)[i] /\ Val(v)[i] <= 6)
    THEN {Err("range", "Recharge range values must be between 1 and 6")}
    ELSE IF Len(Val(v)) = 0
    THEN {Err("range", "min() arg is an empty sequence")}
    ELSE {}

\* Usage(**u): type, value, times, range in declaration order; a key the dict
\* lacks takes its default None, and a key the model does not declare is
\* ignored.
UsageErrors(u) ==
    LET e_type == IF u["type"] \in UsageType THEN {}
                  ELSE {Err("type", "Input should be 'recharge', 'per_day', 'per_short_rest', 'per_long_rest' or 'costs'")}
        data == IF e_type = {} THEN [k \in {"type"} |-> u["type"]] ELSE EmptyDict
    IN  e_type
        \cup ValidateUsageValue(Get(u, "value", None), data)
        \cup ValidateUsageTimes(Get(u, "times", None))
        \cup ValidateUsageRange(Get(u, "range", None))

----------------------------------------------------------------------------
(* Field grammars *)

\* A stat line that starts with the label of a field grammar, and whether the
\* rest of it matches the template of that grammar
StatLabels ==
    {"Armor Class", "Hit Points", "Challenge", "Speed", "Senses", "Saving Throws", "Skills"}

StatLines == [label : StatLabels, matches : BOOLEAN]

\* What a grammar does with a line: it returns or raises; it writes the field
\* or not; the value it writes is the parsed one, an empty dict, or None.
GrammarResult(ok, written, value, exc) ==
    [ok |-> ok, written |-> written, value |-> value, exc |-> exc]

\* The grammars of the document converter: the branches of
\* _process_core_stats, _process_senses_and_languages and _process_abilities
\* for one line.  Armor Class, Hit Points and Challenge assign under
\* `if match`; Speed and Senses assign the dict they collected, empty when no
\* segment matched; Saving Throws and Skills assign the list or None.
ConverterGrammar(line) ==
    IF line.label \in {"Armor Class", "Hit Points", "Challenge"}
    THEN GrammarResult(TRUE, line.matches, "parsed", "")
    ELSE IF line.label \in {"Speed", "Senses"}
    THEN GrammarResult(TRUE, TRUE, IF line.matches THEN "parsed" ELSE "empty", "")
    ELSE GrammarResult(TRUE, TRUE, IF line.matches THEN "parsed" ELSE "none", "")

\* The grammars of CoreStatsParser and AbilitiesParser for one line:
\* parse_armor_class, parse_hit_points and parse_challenge_rating raise
\* ValueError when the pattern does not match; parse_speed, parse_senses,
\* parse_saving_throws and parse_skills return what they collected.
CoreStatsParserGrammar(line) ==
    IF line.label \in {"Armor Class", "Hit Points", "Challenge"}
    THEN (IF line.matches THEN GrammarResult(TRUE, TRUE, "parsed", "")
          ELSE GrammarResult(FALSE, FALSE, "none", "ValueError"))
    ELSE GrammarResult(TRUE, TRUE, IF line.matches THEN "parsed" ELSE "empty", "")

-----------------------------------------------------------------------------
(* Speed *)

\* The segments of a Speed line between ", ": an optional mode word, the
\* number, "ft." and what follows it
SpeedModes == {"fly"}
SpeedNumbers == {30, 60}
SpeedTails == {"", " (hover)", " underwater"}
SpeedSegments ==
    [mode : {None} \cup {Some(m) : m \in SpeedModes}, n : SpeedNumbers, tail : SpeedTails]

\* The digits of a number, as the text a regex group captures
DigitsOf(n) == IF n = 30 THEN "30" ELSE IF n = 60 THEN "60" ELSE "0"

\* str.strip() of the texts that follow "ft."
StripTail(s) ==
    IF s = " underwater" THEN "underwater"
    ELSE IF s = " (hover)" THEN "(hover)"
    ELSE IF s = " " THEN ""
    ELSE s

\* 'hover' in extra
TailHasHover(s) == s \in {" (hover)", "(hover)"}

\* re.match(r"(\d+)\s*ft\.?([ \w]*)(?:\.|\n)?", part) of _process_core_stats:
\* the pattern starts with the digits, so a segment that starts with a mode
\* word does not match; group 2 stops at the first character that is neither
\* a space nor a word character
ConverterSpeedMatch(seg) ==
    [matched |-> IsNone(seg.mode),
     type |-> DigitsOf(seg.n),
     extra |-> IF seg.tail = " (hover)" THEN " " ELSE seg.tail]

\* re.match(r"(?:(\w+)\s+)?(\d+)\s*ft\.?(.*)", part) of parse_speed, and
\* speed_match.group(1) or "walk"
ParserSpeedMatch(seg) ==
    [matched |-> TRUE,
     type |-> IF IsNone(seg.mode) THEN "walk" ELSE Val(seg.mode),
     extra |-> seg.tail]

\* The body of the loop over speed_parts for one segment: the dict and the
\* special list after it.  The converter tests `elif extra`, the parser
\* `if extra` first; both append extra.strip()
SpeedStep(by, seg, acc) ==
    LET m == IF by = "converter" THEN ConverterSpeedMatch(seg) ELSE ParserSpeedMatch(seg)
    IN  IF ~ m.matched THEN acc
        ELSE LET speeds == Update(acc.speeds, [k \in {m.type} |-> seg.n])
             IN  IF TailHasHover(m.extra)
                 THEN [speeds |-> Update(speeds, [k \in {"hover"} |-> TRUE]),
                       special |-> acc.special]
                 ELSE IF m.extra # ""
                 THEN [speeds |-> speeds, special |-> Append(acc.special, StripTail(m.extra))]
                 ELSE [speeds |-> speeds, special |-> acc.special]

RECURSIVE SpeedLoop(_, _, _)
SpeedLoop(by, parts, acc) ==
    IF parts = << >> THEN acc
    ELSE SpeedLoop(by, Tail(parts), SpeedStep(by, Head(parts), acc))

\* '; '.join(s.strip() for s in special if s.strip()): the joined string is
\* kept as the sequence of its non-empty parts, "" being the empty sequence
NonEmptyText(s) == s # ""
JoinSpecial(special) == SelectSeq(special, NonEmptyText)

\* The Speed branch of _process_core_stats (by = "converter") and
\* CoreStatsParser.parse_speed (by = "parsers") on the segments of a line
ParseSpeed(by, parts) ==
    LET r == SpeedLoop(by, parts, [speeds |-> EmptyDict, special |-> << >>])
    IN  IF r.special # << >>
        THEN Update(r.speeds, [k \in {"special"} |-> JoinSpecial(r.special)])
        ELSE r.speeds

-----------------------------------------------------------------------------
(* Languages *)

\* The sentinel of an empty spoken list, the one-character string of an em
\* dash in the source
EmDash == "-"

\* The segments of a Languages line: the text of the segment, and the pieces
\* str.split(",") cuts it into, stripped (a comma inside parentheses cuts too)
LanguageSegments ==
    {[text |-> "Common", pieces |-> << "Common" >>, telepathy |-> None],
     [text |-> "Draconic", pieces |-> << "Draconic" >>, telepathy |-> None],
     [text |-> "telepathy 60 ft.", pieces |-> << "telepathy 60 ft." >>, telepathy |-> Some(60)],
     [text |-> "Common (written, spoken)",
      pieces |-> << "Common (written", "spoken)" >>, telepathy |-> None]}

\* The lines: the label alone, the label with "none", the label with segments
\* joined by ", "
LanguageLines ==
    {[rest |-> "", parts |-> << >>], [rest |-> "none", parts |-> << >>]}
        \cup {[rest |-> "list", parts |-> p] : p \in SeqsUpTo(LanguageSegments, MaxParts) \ {<< >>}}

RECURSIVE SplitOnEveryComma(_)
SplitOnEveryComma(parts) ==
    IF parts = << >> THEN << >> ELSE Head(parts).pieces \o SplitOnEveryComma(Tail(parts))

\* The Languages branch of _process_senses_and_languages on the languages
\* entry the record starts with: [l.strip() for l in languages.split(",")],
\* or the sentinel when nothing follows the label
ConverterLanguages(line) ==
    [k \in {"spoken"} |->
        IF line.rest = "" THEN << EmDash >>
        ELSE IF line.rest = "none" THEN << "none" >>
        ELSE SplitOnEveryComma(line.parts)]

\* The loop over parts of parse_languages (none of the segments has one of
\* the indicators of a special ability): the spoken list and telepathy
RECURSIVE LanguageLoop(_, _)
LanguageLoop(parts, acc) ==
    IF parts = << >> THEN acc
    ELSE LET part == Head(parts)
         IN  LanguageLoop(Tail(parts),
                 IF ~ IsNone(part.telepathy)
                 THEN [spoken |-> acc.spoken, telepathy |-> part.telepathy]
                 ELSE IF part.text # "" /\ part.text # EmDash
                 THEN [spoken |-> Append(acc.spoken, part.text), telepathy |-> acc.telepathy]
                 ELSE acc)

\* CoreStatsParser.parse_languages: the split keeps a comma at paren_level > 0
ParseLanguages(line) ==
    IF line.rest \in {"", "none"}
    THEN [spoken |-> << EmDash >>, telepathy |-> None, special |-> None]
    ELSE LET r == LanguageLoop(line.parts, [spoken |-> << >>, telepathy |-> None])
         IN  [spoken |-> IF r.spoken # << >> THEN r.spoken ELSE << EmDash >>,
              telepathy |-> r.telepathy,
              special |-> None]

-----------------------------------------------------------------------------
(* Entry accumulation *)

\* The names a bold-led paragraph of a section opens an entry with
BoldNames == {"Detect", "Wing Attack (costs 2 actions)", "Wing Attack (Costs 2 Actions)"}

\* The text of a paragraph without a leading bold run, as the document has it
ContinuationTexts == {"more", " more "}

\* _normalize_text: NFKC and strip()
NormalizeText(t) == IF t = " more " THEN "more" ELSE t

\* The paragraphs of a section after its introduction: bold-led with the name
\* and description _extract_name_from_bold_runs gives, or a continuation
SectionParagraphs ==
    [bold : {TRUE}, name : BoldNames, text : {"does it"}]
        \cup [bold : {FALSE}, name : {""}, text : ContinuationTexts]

EntrySections == {"traits", "actions", "lair_actions", "regional_effects"}

\* re.search(r"\(costs (\d+) actions\)", name.lower()), 1 without a match
CostOf(name) ==
    IF name \in {"Wing Attack (costs 2 actions)", "Wing Attack (Costs 2 Actions)"} THEN 2 ELSE 1

\* re.sub(r"\(costs \d+ actions\)", "", name).strip(): the pattern is matched
\* against the name as written, not against its lower-cased form
StripCost(name) == IF name = "Wing Attack (costs 2 actions)" THEN "Wing Attack" ELSE name

\* The entry a bold-led paragraph starts; the description is kept as its
\* lines, which the source joins with "\n".  The other keys of an entry
\* (usage, attack, hit, mechanics) are computed from the same texts.
NewEntry(section, para) ==
    IF section = "legendary_actions"
    THEN [name |-> StripCost(para.name), description |-> << para.text >>,
          cost |-> CostOf(para.name)]
    ELSE [name |-> para.name, description |-> << para.text >>]

\* The loop body with every continuation paragraph skipped
AccumulateStep_DropsContinuation(section, para, acc) ==
    IF para.bold
    THEN [current |-> Some(NewEntry(section, para)),
          emitted |-> IF IsNone(acc.current) THEN acc.emitted
                      ELSE Append(acc.emitted, Val(acc.current))]
    ELSE acc

\* The loop body of _process_traits, _process_actions, _process_lair_actions
\* and _process_regional_effects for one paragraph: current is None or the
\* entry being accumulated
AccumulateStep(section, para, acc) ==
    IF para.bold
    THEN [current |-> Some(NewEntry(section, para)),
          emitted |-> IF IsNone(acc.current) THEN acc.emitted
                      ELSE Append(acc.emitted, Val(acc.current))]
    ELSE IF ~ IsNone(acc.current)
    THEN [current |-> Some([Val(acc.current) EXCEPT
                               !.description = Append(@, NormalizeText(para.text))]),
          emitted |-> acc.emitted]
    ELSE acc

\* The loop body of _process_legendary_actions: a bold-led paragraph is
\* appended at once and there is no branch for any other paragraph
LegendaryStep(para, acc) ==
    IF para.bold
    THEN [current |-> None, emitted |-> Append(acc.emitted, NewEntry("legendary_actions", para))]
    ELSE acc

RECURSIVE AccumulateLoop(_, _, _)
AccumulateLoop(section, paras, acc) ==
    IF paras = << >> THEN acc
    ELSE AccumulateLoop(section, Tail(paras),
             IF section = "legendary_actions" THEN LegendaryStep(Head(paras), acc)
             ELSE AccumulateStep(section, Head(paras), acc))

\* The entries a section finishes, in order: the loop, then the last entry
AccumulateEntries(section, paras) ==
    LET r == AccumulateLoop(section, paras, [current |-> None, emitted |-> << >>])
    IN  IF IsNone(r.current) THEN r.emitted ELSE Append(r.emitted, Val(r.current))

\* BaseParser.extract_parenthetical(title)[0]: the text around the first
\* parenthetical, stripped
ExtractParenthetical(title) ==
    IF title \in {"Wing Attack (costs 2 actions)", "Wing Attack (Costs 2 Actions)"}
    THEN "Wing Attack" ELSE title

\* The entry LegendaryActionsParser.parse_legendary_actions makes of a title:
\* the cost is searched in the name extract_parenthetical returned
ParserLegendaryEntry(title) ==
    LET name == ExtractParenthetical(title)
    IN  [name |-> StripCost(name), cost |-> CostOf(name)]

\* The entry StatBlockExtractor.parse_monster_stat_block makes of a legendary
\* action: the name as it is and 'cost': 1
PdfLegendaryEntry(action_name) == [name |-> action_name, cost |-> 1]

\* The name and cost _process_legendary_actions gives an entry
ConverterLegendaryEntry(name) == [name |-> StripCost(name), cost |-> CostOf(name)]

-----------------------------------------------------------------------------
(* Segmenter *)

\* The paragraphs of a document: the style name decides the level, the text
\* is as the document has it
HeaderTexts == {"Legendary Actions", " TRAITS. ", "Habitat.", "Traits ."}
StreamParagraphs ==
    [style : {"heading 1"}, text : {"Goblin"}]
        \cup [style : {"heading 2"}, text : {"Small humanoid"}]
        \cup [style : {"heading 3"}, text : HeaderTexts]
        \cup [style : {"normal"}, text : {"Armor Class 15", " "}]

\* text.lower().strip().strip('.'): the second strip removes only '.', so
\* whitespace that stood before a final '.' stays
CleanText(text) ==
    IF text = "Legendary Actions" THEN "legendary actions"
    ELSE IF text = " TRAITS. " THEN "traits"
    ELSE IF text = "Habitat." THEN "habitat"
    ELSE IF text = "Traits ." THEN "traits "
    ELSE text

SECTION_MARKERS ==
    [k \in {"actions", "legendary actions", "lair actions", "regional effects", "traits",
            "bonus actions", "reactions", "description"} |->
        IF k = "legendary actions" THEN "legendary_actions"
        ELSE IF k = "lair actions" THEN "lair_actions"
        ELSE IF k = "regional effects" THEN "regional_effects"
        ELSE IF k = "bonus actions" THEN "bonus_actions"
        ELSE k]

\* _get_section_name
GetSectionName(text) == Get(SECTION_MARKERS, CleanText(text), CleanText(text))

\* paragraph.text.strip()
StripText(text) == IF text = " " THEN "" ELSE NormalizeText(text)

\* Save previous section / Add last section: if current_paragraphs
SaveSection(st) ==
    IF st.current_paragraphs # << >>
    THEN Update(st.sections, [k \in {st.current_section} |-> st.current_paragraphs])
    ELSE st.sections

\* The loop body with empty paragraphs kept
SegmentStep_KeepsEmpty(stream, i, st) ==
    LET p == stream[i]
    IN  IF p.style = "heading 1"
        THEN [st EXCEPT !.sections = Update(@, [k \in {"header"} |-> NormalizeText(p.text)])]
        ELSE IF p.style = "heading 2"
        THEN [st EXCEPT !.sections = Update(@, [k \in {"subheader"} |-> NormalizeText(p.text)])]
        ELSE IF p.style = "heading 3"
        THEN [sections |-> SaveSection(st),
              current_section |-> GetSectionName(p.text),
              current_paragraphs |-> << >>]
        ELSE [st EXCEPT !.current_paragraphs = Append(@, i)]

\* The loop body of extract_text_from_docx for the paragraph at position i;
\* a paragraph in a list is kept as its position in the document
SegmentStep(stream, i, st) ==
    LET p == stream[i]
    IN  IF p.style = "heading 1"
        THEN [st EXCEPT !.sections = Update(@, [k \in {"header"} |-> NormalizeText(p.text)])]
        ELSE IF p.style = "heading 2"
        THEN [st EXCEPT !.sections = Update(@, [k \in {"subheader"} |-> NormalizeText(p.text)])]
        ELSE IF p.style = "heading 3"
        THEN [sections |-> SaveSection(st),
              current_section |-> GetSectionName(p.text),
              current_paragraphs |-> << >>]
        ELSE IF StripText(p.text) # ""
        THEN [st EXCEPT !.current_paragraphs = Append(@, i)]
        ELSE st

RECURSIVE SegmentLoop(_, _, _)
SegmentLoop(stream, i, st) ==
    IF i > Len(stream) THEN st
    ELSE SegmentLoop(stream, i + 1, SegmentStep(stream, i, st))

\* extract_text_from_docx: the sections map
ExtractSections(stream) ==
    SaveSection(SegmentLoop(stream, 1,
        [sections |-> EmptyDict, current_section |-> "corestats",
         current_paragraphs |-> << >>]))

-----------------------------------------------------------------------------
(* Ability inference *)

\* The stated attack bonuses, modifiers and proficiency bonuses of the inputs
\* and the magical bonus the description states ("+1 magical") or not
InferBonuses == 2..8
InferModifiers == 0..3
InferProficiencies == {2, 3}
InferStated == {None, Some(1)}

\* The first magical_bonus of range(1, 4) for which the dex test or, after
\* it, the str test succeeds; 0 when the loop ends without a break
FirstMagicalMatch(bonus, str_mod, dex_mod, proficiency) ==
    LET hits == {m \in 1..3 : bonus = dex_mod + proficiency + m
                              \/ bonus = str_mod + proficiency + m}
    IN  IF hits = {} THEN 0 ELSE CHOOSE m \in hits : \A n \in hits : m <= n

\* The weapon branch of _process_actions (lines 499-522) on a record that has
\* abilities.str, abilities.dex and proficiency_bonus: ability_used and
\* magical_bonus, which starts as the bonus the description states
InferAbility(bonus, str_mod, dex_mod, proficiency, stated) ==
    LET m == FirstMagicalMatch(bonus, str_mod, dex_mod, proficiency)
    IN  IF m # 0
        THEN [ability_used |-> IF bonus = dex_mod + proficiency + m THEN "dex" ELSE "str",
              magical_bonus |-> Some(m)]
        ELSE [ability_used |-> IF bonus = dex_mod + proficiency THEN "dex" ELSE "str",
              magical_bonus |-> stated]

-----------------------------------------------------------------------------
(* Damage type lists *)

\* The pieces of a group between commas, as the set of damage types whose
\* name occurs in the piece: "fire", "fire and cold", "slashing", "sonic"
DamageChunks == {{"fire"}, {"fire", "cold"}, {"slashing"}, {}}

\* A group of the text between ';': whether it has the word "nonmagical", and
\* its pieces
DamageGroups == [nonmagical : BOOLEAN, chunks : SeqsUpTo(DamageChunks, MaxParts) \ {<< >>}]

\* The texts: one group, or a group followed by a group of one piece
DamageTexts ==
    {<< g >> : g \in DamageGroups}
        \cup {<< g, h >> : g \in DamageGroups,
                          h \in [nonmagical : BOOLEAN, chunks : {<< c >> : c \in DamageChunks}]}

\* The token added for a base type: f'nonmagical {base_type}' or base_type,
\* as its words
DamageToken(is_nonmagical, base_type) ==
    IF is_nonmagical /\ base_type \in PHYSICAL_DAMAGE_TYPES
    THEN << "nonmagical", base_type >> ELSE << base_type >>

\* The tokens one piece can add: base_type is the first type of the set union
\* PHYSICAL_DAMAGE_TYPES | ENERGY_DAMAGE_TYPES that occurs in the piece, and
\* the iteration order of a set of strings differs from run to run
ChunkTokens(is_nonmagical, chunk) ==
    IF chunk = {} THEN {{}}
    ELSE {{DamageToken(is_nonmagical, t)} : t \in chunk}

RECURSIVE GroupTokens(_, _)
GroupTokens(is_nonmagical, chunks) ==
    IF chunks = << >> THEN {{}}
    ELSE {a \cup b : a \in ChunkTokens(is_nonmagical, Head(chunks)),
                     b \in GroupTokens(is_nonmagical, Tail(chunks))}

RECURSIVE TextTokens(_)
TextTokens(groups) ==
    IF groups = << >> THEN {{}}
    ELSE {a \cup b : a \in GroupTokens(Head(groups).nonmagical, Head(groups).chunks),
                     b \in TextTokens(Tail(groups))}

\* The position of a token of the inputs in the lexical order of strings
LexicalRank(token) ==
    IF token = << "cold" >> THEN 1
    ELSE IF token = << "fire" >> THEN 2
    ELSE IF token = << "nonmagical", "slashing" >> THEN 3
    ELSE 4

\* sorted(list(damage_types))
SortedList(tokens) ==
    CHOOSE q \in [1..Cardinality(tokens) -> tokens] :
        \A i, j \in 1..Cardinality(tokens) : i < j => LexicalRank(q[i]) < LexicalRank(q[j])

\* DamageTypeParser.parse_damage_types: the lists it can return
ParseDamageTypes(groups) == {SortedList(tokens) : tokens \in TextTokens(groups)}

----------------------------------------------------------------------------
(* Validator runs: one model is built from one input *)

\* Regional effects of the inputs: one without mechanics and three with a
\* stated save DC
EffectKinds ==
    {[name |-> "fog", mechanics |-> None],
     [name |-> "tremor", mechanics |-> Some([save_dc |-> 13, save_type |-> "wisdom"])],
     [name |-> "miasma", mechanics |-> Some([save_dc |-> 11, save_type |-> "wisdom"])],
     [name |-> "storm", mechanics |-> Some([save_dc |-> 10, save_type |-> "dexterity"])]}

\* Damage resistance tokens of the inputs, as their words
ResistanceTokens ==
    {<< "fire" >>, << "nonmagical", "slashing" >>, << "nonmagical", "fire" >>, << "sonic" >>}

\* Challenge ratings of the inputs with the XP of the table: a number and a
\* fraction string
InputRatings == {FloatRating(5, 1), StrRating(1, 4)}

InputBonuses == {None, Some(2), Some(3), Some(4)}

InputDarkvisions == {Some(60), Some(7)}
InputPassivePerceptions == {10, 99}

\* A record in the shape of the schema
SchemaRecord(rating, bonus, table, darkvision, passive, tokens, effects) ==
    [k \in RequiredFields \cup {"regional_effects"} |->
        IF k = "creature_info"
        THEN [challenge_rating |->
                [rating |-> rating,
                 xp |-> IF rating.type = "str" THEN CanonicalXp(rating) ELSE XpByInt[rating.num]]]
        ELSE IF k = "proficiency" THEN [bonus |-> bonus]
        ELSE IF k = "abilities" THEN AbilitiesOf(table)
        ELSE IF k = "defenses" THEN [damage_resistances |-> tokens]
        ELSE IF k = "senses" THEN SensesOf(darkvision, passive)
        ELSE IF k = "regional_effects"
        THEN (IF effects = << >> THEN None ELSE Some([effects |-> effects]))
        ELSE [name |-> k]]

NotValidatedYet == mode = "validator" /\ vop = "none"

\* StatBlockValidator(**record)
ValidateStatBlock ==
    /\ NotValidatedYet
    /\ \E rating \in InputRatings, bonus \in InputBonuses, table \in AbilityTables,
          darkvision \in InputDarkvisions, passive \in InputPassivePerceptions,
          tokens \in SeqsUpTo(ResistanceTokens, MaxTokens),
          effects \in SeqsUpTo(EffectKinds, MaxEffects) :
          LET rec == SchemaRecord(rating, bonus, table, darkvision, passive, tokens, effects)
          IN  /\ vop' = "statblock"
              /\ vin' = rec
              /\ vout' = StatBlockErrors(rec)
    /\ UNCHANGED << mode, asmVars, accepted, output_files, script_done, pdfVars, runs >>

\* ChallengeRating(**parse_challenge_rating(line)): the challenge rating the
\* grammar produced, handed to the validator's model
ValidateParsedChallenge ==
    /\ NotValidatedYet
    /\ \E r \in RatingTokens, x \in SrcXps :
          /\ vop' = "parsed_challenge"
          /\ vin' = ParseChallengeRating(r, x)
          /\ vout' = ChallengeRatingErrors(ParseChallengeRating(r, x))
    /\ UNCHANGED << mode, asmVars, accepted, output_files, script_done, pdfVars, runs >>

\* calculate_proficiency_bonus(rating) for a rating of the canonical table
CalculateBonus ==
    /\ NotValidatedYet
    /\ \E r \in CanonicalRatings :
          /\ vop' = "calculate_proficiency_bonus"
          /\ vin' = r
          /\ vout' = {CalculateProficiencyBonus(r)}
    /\ UNCHANGED << mode, asmVars, accepted, output_files, script_done, pdfVars, runs >>

SpellInputs ==
    [dc : {10, 14, 15, 16}, attack_bonus : {0, 6, 7}, base_modifier : {3, 4}]

\* SpellcastingTrait(**trait) for the trait of a creature with the given
\* proficiency bonus
ValidateSpellcasting ==
    /\ NotValidatedYet
    /\ \E sc \in SpellInputs, p \in 2..4 :
          /\ vop' = "spellcasting"
          /\ vin' = [proficiency |-> p, trait |-> sc]
          /\ vout' = SpellcastingErrors(sc)
    /\ UNCHANGED << mode, asmVars, accepted, output_files, script_done, pdfVars, runs >>

AttackInputs ==
    [is_melee : BOOLEAN, is_ranged : BOOLEAN,
     reach : {None, Some(""), Some("5 ft.")},
     range : {None, Some(""), Some("80/320 ft.")}]

\* Attack(**a)
ValidateAttack ==
    /\ NotValidatedYet
    /\ \E a \in AttackInputs :
          /\ vop' = "attack"
          /\ vin' = a
          /\ vout' = AttackErrors(a)
    /\ UNCHANGED << mode, asmVars, accepted, output_files, script_done, pdfVars, runs >>

\* ActionsParser.parse_attack(text)
ParseAttackText ==
    /\ NotValidatedYet
    /\ \E t \in AttackTexts :
          /\ vop' = "parse_attack"
          /\ vin' = t
          /\ vout' = {ParseAttack(t)}
    /\ UNCHANGED << mode, asmVars, accepted, output_files, script_done, pdfVars, runs >>

\* Usage(**UsageParser.parse_usage(text)) when the parser finds a usage
ValidateParsedUsage ==
    /\ NotValidatedYet
    /\ \E t \in UsageTexts :
          /\ vop' = "parsed_usage"
          /\ vin' = ParseUsage(t)
          /\ vout' = IF IsNone(ParseUsage(t)) THEN {} ELSE UsageErrors(Val(ParseUsage(t)))
    /\ UNCHANGED << mode, asmVars, accepted, output_files, script_done, pdfVars, runs >>

\* One field grammar applied to one stat line, by the document converter or
\* by the parser classes
ParseStatLine ==
    /\ NotValidatedYet
    /\ \E line \in StatLines, by \in {"converter", "parsers"} :
          /\ vop' = "stat_line"
          /\ vin' = [by |-> by, line |-> line]
          /\ vout' = {IF by = "converter" THEN ConverterGrammar(line)
                      ELSE CoreStatsParserGrammar(line)}
    /\ UNCHANGED << mode, asmVars, accepted, output_files, script_done, pdfVars, runs >>

\* One traits or actions section processed on a record that has its abilities:
\* the entries are diverted or emitted, then the section's list is formed
SectionRecords ==
    {[k \in {"abilities"} |-> AbilitiesOf(t)] : t \in AbilityTables}
        \cup {[k \in {"abilities"} |-> EmptyDict]}

ProcessEntries ==
    /\ NotValidatedYet
    /\ \E section \in {"traits", "actions"}, rec \in SectionRecords,
          entries \in SeqsUpTo(TraitEntries, MaxEntries) :
          /\ vop' = "entries"
          /\ vin' = [section |-> section, rec |-> rec, entries |-> entries]
          /\ vout' = {DivertEntries(rec, entries, << >>)}
    /\ UNCHANGED << mode, asmVars, accepted, output_files, script_done, pdfVars, runs >>

\* One Speed line parsed by the document converter or by CoreStatsParser
ParseSpeedLine ==
    /\ NotValidatedYet
    /\ \E by \in {"converter", "parsers"}, parts \in SeqsUpTo(SpeedSegments, MaxParts) :
          /\ Len(parts) >= 1
          /\ vop' = "speed"
          /\ vin' = [by |-> by, parts |-> parts]
          /\ vout' = {ParseSpeed(by, parts)}
    /\ UNCHANGED << mode, asmVars, accepted, output_files, script_done, pdfVars, runs >>

\* One Languages line parsed by the document converter or by CoreStatsParser
ParseLanguagesLine ==
    /\ NotValidatedYet
    /\ \E by \in {"converter", "parsers"}, line \in LanguageLines :
          /\ vop' = "languages"
          /\ vin' = [by |-> by, line |-> line]
          /\ vout' = {IF by = "converter" THEN ConverterLanguages(line) ELSE ParseLanguages(line)}
    /\ UNCHANGED << mode, asmVars, accepted, output_files, script_done, pdfVars, runs >>

\* The paragraphs of one section turned into entries
ProcessSectionParagraphs ==
    /\ NotValidatedYet
    /\ \E section \in EntrySections \cup {"legendary_actions"},
          paras \in SeqsUpTo(SectionParagraphs, MaxParagraphs) :
          /\ vop' = "paragraphs"
          /\ vin' = [section |-> section, paras |-> paras]
          /\ vout' = {AccumulateEntries(section, paras)}
    /\ UNCHANGED << mode, asmVars, accepted, output_files, script_done, pdfVars, runs >>

\* The name of one legendary action entry read by one of the three parsers
ParseLegendaryEntry ==
    /\ NotValidatedYet
    /\ \E by \in {"converter", "parsers", "pdf"}, name \in BoldNames :
          /\ vop' = "legendary_entry"
          /\ vin' = [by |-> by, name |-> name]
          /\ vout' = {IF by = "converter" THEN ConverterLegendaryEntry(name)
                      ELSE IF by = "parsers" THEN ParserLegendaryEntry(name)
                      ELSE PdfLegendaryEntry(name)}
    /\ UNCHANGED << mode, asmVars, accepted, output_files, script_done, pdfVars, runs >>

\* One paragraph stream segmented
SegmentDocument ==
    /\ NotValidatedYet
    /\ \E stream \in SeqsUpTo(StreamParagraphs, MaxStream) :
          /\ vop' = "segment"
          /\ vin' = [stream |-> stream]
          /\ vout' = {ExtractSections(stream)}
    /\ UNCHANGED << mode, asmVars, accepted, output_files, script_done, pdfVars, runs >>

\* The ability inference of one weapon attack
InferWeaponAbility ==
    /\ NotValidatedYet
    /\ \E bonus \in InferBonuses, str_mod \in InferModifiers, dex_mod \in InferModifiers,
          proficiency \in InferProficiencies, stated \in InferStated :
          /\ vop' = "infer"
          /\ vin' = [bonus |-> bonus, str |-> str_mod, dex |-> dex_mod,
                     proficiency |-> proficiency, stated |-> stated]
          /\ vout' = {InferAbility(bonus, str_mod, dex_mod, proficiency, stated)}
    /\ UNCHANGED << mode, asmVars, accepted, output_files, script_done, pdfVars, runs >>

\* The texts of a spellcasting trait: "spellcasting ability is +3", the same
\* phrase with +0, or no such phrase
ModifierTexts == {"explicit", "explicit zero", "fallback"}

\* parse_spellcasting_trait on one trait text and one abilities map
ParseSpellcastingModifier ==
    /\ NotValidatedYet
    /\ \E rec \in SectionRecords, text \in ModifierTexts :
          /\ vop' = "modifier"
          /\ vin' = [rec |-> rec, text |-> text]
          /\ vout' = {SpellcastingResult(rec, text)}
    /\ UNCHANGED << mode, asmVars, accepted, output_files, script_done, pdfVars, runs >>

\* One damage resistance or immunity text parsed
ParseDamageText ==
    /\ NotValidatedYet
    /\ \E groups \in DamageTexts :
          \E list \in ParseDamageTypes(groups) :
              /\ vop' = "damage_text"
              /\ vin' = [groups |-> groups]
              /\ vout' = {list}
    /\ UNCHANGED << mode, asmVars, accepted, output_files, script_done, pdfVars, runs >>

InitValidator ==
    /\ mode = "validator"
    /\ doc = NoDoc
    /\ pdf_blocks = << >>
    /\ state = "CREATED"
    /\ current_creature = EmptyDict
    /\ returned = None
    /\ failure = None
    /\ executed = << >>
    /\ accepted = {}
    /\ output_files = {}
    /\ script_done = FALSE
    /\ pdf_i = 1
    /\ NoValidation
    /\ runs = << >>

NextValidator ==
    \/ ValidateStatBlock
    \/ ValidateParsedChallenge
    \/ CalculateBonus
    \/ ValidateSpellcasting
    \/ ValidateAttack
    \/ ParseAttackText
    \/ ValidateParsedUsage
    \/ ParseStatLine
    \/ ProcessEntries
    \/ ParseSpeedLine
    \/ ParseLanguagesLine
    \/ ProcessSectionParagraphs
    \/ ParseLegendaryEntry
    \/ SegmentDocument
    \/ InferWeaponAbility
    \/ ParseSpellcastingModifier
    \/ ParseDamageText

SpecValidator == InitValidator /\ [][NextValidator]_vars

----------------------------------------------------------------------------
(* Claims about the Schema Validator *)

\* The value of a rating as a fraction num/den
RatingNum(r) == r.num
RatingDen(r) == IF r.den = 0 THEN 1 ELSE r.den

\* The proficiency bonus of the data model: 2 below CR 1, else 2 + floor((CR - 1) / 4)
SpecProficiency(r) ==
    IF RatingNum(r) < RatingDen(r) THEN 2
    ELSE 2 + (((RatingNum(r) \div RatingDen(r)) - 1) \div 4)

RatingLeq(a, b) == RatingNum(a) * RatingDen(b) <= RatingNum(b) * RatingDen(a)

\* The parts of a validated record
InRating == vin["creature_info"].challenge_rating.rating
InBonus == vin["proficiency"].bonus
InTokens == vin["defenses"].damage_resistances
InEffects == IF IsNone(vin["regional_effects"]) THEN << >> ELSE Val(vin["regional_effects"]).effects
InSenses == vin["senses"]

\* The save DC the data model derives for an effect of the validated record
ExpectedSaveDc(effect) ==
    8 + SpecProficiency(InRating) + vin["abilities"][Val(effect.mechanics).save_type].modifier

\* The elements of the validated record that violate an invariant of the data model
MismatchedEffects ==
    {i \in 1..Len(InEffects) :
        /\ ~ IsNone(InEffects[i].mechanics)
        /\ Val(InEffects[i].mechanics).save_dc # ExpectedSaveDc(InEffects[i])}

InvalidTokens ==
    {i \in 1..Len(InTokens) :
        ~ \/ Len(InTokens[i]) = 1
             /\ InTokens[i][1] \in PHYSICAL_DAMAGE_TYPES \cup ENERGY_DAMAGE_TYPES
          \/ Len(InTokens[i]) = 2
             /\ InTokens[i][1] = "nonmagical"
             /\ InTokens[i][2] \in PHYSICAL_DAMAGE_TYPES}

BadSenses ==
    {i \in 1..Len(SenseKeys) : SenseValueBad(SenseKeys[i], InSenses[SenseKeys[i]])}

Reports(loc, i) == \E e \in vout : e.loc = loc /\ e.idx = i

\* C5: when the validated record violates several invariants at once, the
\* outcome reports every one of them.
C5_AllViolationsReported ==
    (vop = "statblock"
        /\ Cardinality(MismatchedEffects) + Cardinality(InvalidTokens)
              + Cardinality(BadSenses) >= 2)
        => /\ \A i \in MismatchedEffects : Reports("regional_effects", i)
           /\ \A i \in InvalidTokens : Reports("damage_resistances", i)
           /\ \A i \in BadSenses : Reports("senses", i)

\* C6: the challenge rating the grammar produces for a rating of the canonical
\* table passes the validator's CR-to-XP check, and one for a rating outside
\* the table fails it.
C6_ParsedRatingPassesXpCheck ==
    vop = "parsed_challenge" =>
        /\ vin.rating \in CanonicalRatings => vout = {}
        /\ vin.rating \notin CanonicalRatings => vout # {}

\* C8: the computed proficiency bonus of a canonical rating is 2 below CR 1
\* and 2 + floor((CR - 1) / 4) from CR 1, it does not decrease as CR grows,
\* and a record whose stated proficiency bonus differs from it is rejected.
C8_ProficiencyBonusChecked ==
    /\ vop = "calculate_proficiency_bonus" =>
          /\ vout = {SpecProficiency(vin)}
          /\ \A r \in CanonicalRatings :
                RatingLeq(vin, r) => CalculateProficiencyBonus(vin) <= CalculateProficiencyBonus(r)
    /\ (vop = "statblock" /\ ~ IsNone(InBonus) /\ Val(InBonus) # SpecProficiency(InRating))
          => vout # {}

\* C9: a spellcasting trait is accepted only if dc = 8 + base_modifier +
\* proficiency and attack_bonus = base_modifier + proficiency.
C9_SpellDcChecked ==
    (vop = "spellcasting" /\ vout = {}) =>
        /\ vin.trait.dc = 8 + vin.trait.base_modifier + vin.proficiency
        /\ vin.trait.attack_bonus = vin.trait.base_modifier + vin.proficiency

\* C10: for every regional effect with mechanics whose save_dc differs from
\* 8 + proficiency bonus + the modifier of save_type, validation fails with an
\* error that names the effect.
C10_RegionalSaveDcChecked ==
    vop = "statblock" =>
        \A i \in MismatchedEffects :
            \E e \in vout : e.loc = "regional_effects" /\ e.name = InEffects[i].name

C12_FlagsFailOnlyWhenBothFalse ==
    vop = "attack" =>
        ((\E e \in vout : e.loc \in {"is_melee", "is_ranged"})
            <=> (~ vin.is_melee /\ ~ vin.is_ranged))

\* C13: a damage resistance token is valid exactly when it is one of the
\* thirteen damage types or "nonmagical" followed by a physical type, and a
\* record with a token that is not valid fails validation.
C13_DamageTokensChecked ==
    vop = "statblock" =>
        /\ \A i \in 1..Len(InTokens) : ValidateDamageType(InTokens[i]) <=> i \notin InvalidTokens
        /\ InvalidTokens # {} => vout # {}

\* The numbers of a parsed usage are in the ranges of the data model:
\* recharge faces 1..6, times 1..10, cost 1..20
UsageNumbersInRange(u) ==
    /\ ~ IsNone(Get(u, "value", None)) =>
          /\ Val(u["value"]) >= 1
          /\ Val(u["value"]) <= (IF u["type"] = "costs" THEN 20 ELSE 6)
    /\ ~ IsNone(Get(u, "times", None)) => (Val(u["times"]) >= 1 /\ Val(u["times"]) <= 10)
    /\ ~ IsNone(Get(u, "range", None)) =>
          /\ Len(Val(u["range"])) > 0
          /\ \A i \in 1..Len(Val(u["range"])) : Val(u["range"])[i] \in 1..6

\* C14: every usage the Usage Parser produces, with its numbers in range, is
\* a valid Usage of the schema, the variant of type "other" included.
C14_ParsedUsageValid ==
    (vop = "parsed_usage" /\ ~ IsNone(vin) /\ UsageNumbersInRange(Val(vin)))
        => vout = {}

----------------------------------------------------------------------------
(* Claims about missing and optional parts of a document *)

\* The stages that have run
ExecutedStages == {executed[i] : i \in 1..Len(executed)}

\* C15: when the document has no subheader paragraph, the run fails at the
\* subheader stage: no stat line is parsed, the record holds no field of a
\* stat line, and no record is returned.
C15_MissingSubheaderFails ==
    (mode = "docx" /\ doc.subheader = "absent") =>
        /\ ExecutedStages \subseteq {"begin", "subheader"}
        /\ state \in {"CREATED", "INIT", "FAILED"}
        /\ ~ HasKey(current_creature, "challenge_rating")
        /\ IsNone(returned)
        /\ "subheader" \in ExecutedStages =>
              /\ state = "FAILED"
              /\ Val(failure) = [stage |-> "subheader", exc |-> "KeyError", key |-> "subheader"]

\* C15 witness: a document with a header, a Challenge line and no subheader
\* has failed at the subheader stage
C15_Witness ==
    /\ mode = "docx"
    /\ doc.header /\ doc.subheader = "absent" /\ ~ IsNone(doc.challenge)
    /\ state = "FAILED"
    /\ executed = << "begin", "subheader" >>

\* C16: after the optional-section stage the record holds the output of an
\* optional-section parser exactly for the sections of the segmented map, the
\* entry of every other optional section is as the initial record has it, and
\* the stage does not raise on a document without optional sections.
C16_OptionalOnlyIfPresent ==
    mode = "docx" =>
        /\ state = "OPTIONAL_SECTIONS_PARSED" =>
              \A k \in OptionalKeys :
                  IF k \in Sections(doc)
                  THEN HasKey(current_creature, k) /\ ~ IsNone(current_creature[k])
                  ELSE /\ HasKey(current_creature, k) = HasKey(InitialRecord(doc), k)
                       /\ HasKey(current_creature, k) =>
                             current_creature[k] = InitialRecord(doc)[k]
        /\ (~ IsNone(failure) /\ Val(failure).stage = "optional_sections") =>
              /\ OptionalKeys \cap Sections(doc) # {}
              /\ Val(failure).exc # "KeyError"

\* C16 witness: the optional-section stage has run on a document without
\* optional sections and the run goes on
C16_Witness ==
    /\ mode = "docx"
    /\ doc.optional = {}
    /\ state = "OPTIONAL_SECTIONS_PARSED"
    /\ executed[Len(executed)] = "optional_sections"

\* C18: when the document has no ability-score table, the run fails at the
\* abilities stage: no later stage runs on a record with an empty abilities
\* map.
C18_AbilitiesRequired ==
    (mode = "docx" /\ IsNone(doc.abilities)) =>
        /\ state \notin {"ABILITIES_PARSED", "DEFENSES_PARSED", "TRAITS_PARSED",
                         "ACTIONS_PARSED", "OPTIONAL_SECTIONS_PARSED", "VALIDATED"}
        /\ "defenses" \notin ExecutedStages

\* C17: a stat line that starts with a field label and does not match the
\* template of its grammar raises no error and leaves the field absent.
C17_GrammarMissSkipped ==
    (vop = "stat_line" /\ ~ vin.line.matches) =>
        \A r \in vout : r.ok /\ (~ r.written \/ r.value = "none")

----------------------------------------------------------------------------
(* Two conversions on one converter object, interleaved stage by stage *)

RunIds == {1, 2}

\* The documents of the interleaved conversions: complete up to the traits,
\* with or without the ability-score table and a spellcasting trait
InterleavedDocs ==
    {d \in Docs :
        /\ d.header
        /\ d.subheader = "ok"
        /\ ~ IsNone(d.challenge)
        /\ Val(d.challenge).srcXp = 50
        /\ Val(d.challenge).rating \in {StrRating(1, 4), StrRating(5, 0)}
        /\ d.actions = << >>
        /\ d.optional = {}}

NoOutcome == Ok(EmptyDict)

InitInterleaved ==
    /\ mode = "interleaved"
    /\ \E d1 \in InterleavedDocs, d2 \in InterleavedDocs :
          runs = [r \in RunIds |->
                    [doc |-> IF r = 1 THEN d1 ELSE d2, pc |-> 0,
                     status |-> "running", outcome |-> NoOutcome]]
    /\ doc = NoDoc
    /\ pdf_blocks = << >>
    /\ state = "CREATED"
    /\ current_creature = EmptyDict
    /\ returned = None
    /\ failure = None
    /\ executed = << >>
    /\ accepted = {}
    /\ output_files = {}
    /\ script_done = FALSE
    /\ pdf_i = 1
    /\ NoValidation

\* The next stage of run r of convert_docx_to_schema: every stage reads and
\* writes self.current_creature, the field of the converter object; the run
\* ends when a stage raises or when the validation stage returns.
RunStage(r) ==
    /\ mode = "interleaved"
    /\ runs[r].status = "running"
    /\ LET stage == StageOrder[runs[r].pc + 1]
           res == StageResult(stage, current_creature, runs[r].doc)
       IN  /\ current_creature' = res.rec
           /\ runs' = [runs EXCEPT ![r] =
                        [doc |-> runs[r].doc,
                         pc |-> runs[r].pc + 1,
                         status |-> IF ~ res.ok THEN "failed"
                                    ELSE IF stage = "validation" THEN "returned"
                                    ELSE "running",
                         outcome |-> IF ~ res.ok \/ stage = "validation" THEN res
                                     ELSE NoOutcome]]
    /\ UNCHANGED << mode, doc, state, returned, failure, executed, accepted,
                    output_files, script_done, pdfVars, valVars >>

NextInterleaved == \E r \in RunIds : RunStage(r)

SpecInterleaved == InitInterleaved /\ [][NextInterleaved]_vars

\* C19: the outcome of each of the interleaved conversions, the record or the
\* exception and the record it left, is the outcome of converting its
\* document alone.
C19_InterleavedRunsIndependent ==
    mode = "interleaved" =>
        \A r \in RunIds :
            runs[r].status # "running" =>
                runs[r].outcome = RunAlone(runs[r].doc, Len(StageOrder))


\* The entries of a section that are not spellcasting entries, in order
NotSpellcastingEntry(e) == ~ NameHasSpellcasting(e.name)

\* The last spellcasting entry of a section
LastSpellcastingEntry(entries) ==
    entries[CHOOSE i \in 1..Len(entries) :
                /\ NameHasSpellcasting(entries[i].name)
                /\ \A j \in (i + 1)..Len(entries) : ~ NameHasSpellcasting(entries[j].name)]

\* C20: an entry whose name contains "spellcasting" never appears in the list
\* a traits or actions section emits; when the section completes, the list is
\* exactly the other entries in document order, and the spellcasting field is
\* what the Spellcasting Parser makes of the diverted entry's name and
\* description together (absent when no entry is diverted).
C20_SpellcastingEntriesDiverted ==
    vop = "entries" =>
        \A r \in vout :
            /\ \A i \in 1..Len(r.list) : ~ NameHasSpellcasting(r.list[i].name)
            /\ r.res.ok =>
                  /\ r.list = SelectSeq(vin.entries, NotSpellcastingEntry)
                  /\ IF \E i \in 1..Len(vin.entries) : NameHasSpellcasting(vin.entries[i].name)
                     THEN LET e == LastSpellcastingEntry(vin.entries)
                              sc == Val(r.res.rec["spellcasting"])
                          IN  /\ sc.type = (IF e.name = "Innate Spellcasting"
                                            THEN "Innate" ELSE "Regular")
                              /\ sc.base_modifier =
                                    (IF e.description = "explicit" THEN 3
                                     ELSE vin.rec["abilities"]["wisdom"].modifier)
                              /\ sc.base_modifier # 0
                     ELSE r.res.rec = vin.rec

\* A section with an entry of each kind completes: the spellcasting entry is
\* diverted and the other one emitted
C20_Witness ==
    /\ vop = "entries"
    /\ Len(vin.entries) = 2
    /\ NameHasSpellcasting(vin.entries[1].name)
    /\ ~ NameHasSpellcasting(vin.entries[2].name)
    /\ \E r \in vout : r.res.ok /\ Len(r.list) = 1 /\ HasKey(r.res.rec, "spellcasting")

\* The speed record the grammar of the specification gives: the last number
\* of each mode (walk without a mode name), hover when a tail has "hover",
\* the other tails under special
SpecSpeedKeys(parts) ==
    {IF IsNone(parts[i].mode) THEN "walk" ELSE Val(parts[i].mode) : i \in 1..Len(parts)}

SpecSpeedOf(parts, key) ==
    LET own == {i \in 1..Len(parts) :
                   key = (IF IsNone(parts[i].mode) THEN "walk" ELSE Val(parts[i].mode))}
    IN  parts[CHOOSE i \in own : \A j \in own : j <= i].n

SpecNotHoverTail(seg) == seg.tail \notin {"", " (hover)"}

\* C21: in every pipeline a segment without a mode name is stored under
\* "walk" and a segment with a mode under that mode; a tail with "hover" sets
\* hover and adds nothing to special; any other tail is in special, and there
\* is no special key without one.
C21_SpeedGrammar ==
    vop = "speed" =>
        \A speeds \in vout :
            /\ \A key \in SpecSpeedKeys(vin.parts) :
                  HasKey(speeds, key) /\ speeds[key] = SpecSpeedOf(vin.parts, key)
            /\ DOMAIN speeds \subseteq SpecSpeedKeys(vin.parts) \cup {"hover", "special"}
            /\ HasKey(speeds, "hover") <=>
                  \E i \in 1..Len(vin.parts) : vin.parts[i].tail = " (hover)"
            /\ HasKey(speeds, "special") <=>
                  SelectSeq(vin.parts, SpecNotHoverTail) # << >>
            /\ HasKey(speeds, "special") =>
                  Len(speeds["special"]) = Len(SelectSeq(vin.parts, SpecNotHoverTail))

\* The segments of a line that name a spoken language
SpecSpokenSegment(seg) == IsNone(seg.telepathy)

RECURSIVE SpecTexts(_)
SpecTexts(parts) ==
    IF parts = << >> THEN << >> ELSE << Head(parts).text >> \o SpecTexts(Tail(parts))

\* C22: in every pipeline the spoken list of a Languages line is the sentinel
\* list when the line names no spoken language or says none, and otherwise
\* the spoken segments, whole (a comma inside parentheses does not split);
\* a telepathy segment sets telepathy to its number and is not in spoken.
C22_LanguagesGrammar ==
    vop = "languages" =>
        \A languages \in vout :
            LET spoken == SpecTexts(SelectSeq(vin.line.parts, SpecSpokenSegment))
                tele == SelectSeq(vin.line.parts, LAMBDA seg : ~ IsNone(seg.telepathy))
            IN  /\ languages["spoken"] = (IF spoken = << >> THEN << EmDash >> ELSE spoken)
                /\ tele # << >> =>
                      /\ HasKey(languages, "telepathy")
                      /\ languages["telepathy"] = tele[Len(tele)].telepathy

\* The positions of the bold-led paragraphs, in order
BoldPositions(paras) ==
    SelectSeq([i \in 1..Len(paras) |-> i], LAMBDA i : paras[i].bold)

\* The lines of the entry that starts at position i: its own text, then the
\* normalized text of each paragraph up to the next bold-led one
SpecDescription(paras, i) ==
    LET later == {j \in (i + 1)..Len(paras) : paras[j].bold}
        stop == IF later = {} THEN Len(paras) + 1
                ELSE CHOOSE j \in later : \A k \in later : j <= k
    IN  << paras[i].text >> \o
            [j \in 1..(stop - i - 1) |->
                IF paras[i + j].text = " more " THEN "more" ELSE paras[i + j].text]

C24_LegendaryContinuationKept ==
    (vop = "paragraphs" /\ vin.section = "legendary_actions") =>
        \A entries \in vout :
            LET starts == BoldPositions(vin.paras)
            IN  /\ Len(entries) = Len(starts)
                /\ \A k \in 1..Len(starts) :
                      entries[k].description = SpecDescription(vin.paras, starts[k])

\* C25: with every legendary-action parser, an entry whose name carries
\* "(costs 2 actions)" is emitted with cost 2 and the name without the
\* parenthetical, and an entry without it has cost 1.
C25_LegendaryCost ==
    vop = "legendary_entry" =>
        \A entry \in vout :
            /\ vin.name = "Wing Attack (costs 2 actions)" =>
                  entry.cost = 2 /\ entry.name = "Wing Attack"
            /\ vin.name = "Detect" => entry.cost = 1 /\ entry.name = "Detect"

\* The positions of the non-empty, non-heading paragraphs that follow
\* position i up to the next level-3 header (i = 0: from the start)
SpecSectionBody(stream, i) ==
    LET later == {j \in (i + 1)..Len(stream) : stream[j].style = "heading 3"}
        stop == IF later = {} THEN Len(stream) + 1
                ELSE CHOOSE j \in later : \A k \in later : j <= k
    IN  SelectSeq([j \in 1..(stop - i - 1) |-> i + j],
                  LAMBDA j : stream[j].style = "normal" /\ stream[j].text # " ")

\* The identifier of a header text as the specification states it: the
\* lower-cased text without surrounding whitespace and '.', canonical when
\* recognized
SpecSectionId(text) ==
    IF text = "Legendary Actions" THEN "legendary_actions"
    ELSE IF text \in {" TRAITS. ", "Traits ."} THEN "traits"
    ELSE "habitat"

\* The identifier with text.lower().strip().strip('.') taken literally
SpecSectionIdAsCleaned(text) ==
    IF text = "Legendary Actions" THEN "legendary_actions"
    ELSE IF text = " TRAITS. " THEN "traits"
    ELSE IF text = "Traits ." THEN "traits "
    ELSE "habitat"

\* The level-3 headers whose identifier no other header of the stream has
SpecOnlyHeader(stream, i) ==
    /\ stream[i].style = "heading 3"
    /\ \A j \in 1..Len(stream) :
          (j # i /\ stream[j].style = "heading 3") =>
              GetSectionName(stream[j].text) # GetSectionName(stream[i].text)

\* Every list of the map holds non-empty non-heading paragraphs only
SpecListsHoldBodies(stream, sections) ==
    \A k \in DOMAIN sections \ {"header", "subheader"} :
        \A n \in 1..Len(sections[k]) :
            stream[sections[k][n]].style = "normal" /\ stream[sections[k][n]].text # " "

C30_NoParagraphLost ==
    vop = "segment" =>
        \A sections \in vout :
            \A i \in 1..Len(vin.stream) :
                (vin.stream[i].style = "normal" /\ vin.stream[i].text # " ") =>
                    Cardinality({<< k, n >> \in
                        UNION {{<< k, n >> : n \in 1..Len(sections[k])} :
                                  k \in DOMAIN sections \ {"header", "subheader"}} :
                        sections[k][n] = i}) = 1

\* The magical bonuses 0..3 with which an ability reproduces the stated bonus
SpecReproduces(ability) ==
    {m \in 0..3 : vin[ability] + vin.proficiency + m = vin.bonus}

\* C28: whenever strength or dexterity with a magical bonus 0..3 reproduces
\* the stated attack bonus, modifier[ability_used] + proficiency +
\* magical_bonus (0 when unset) equals it, and ability_used is dexterity
\* when both abilities reproduce it.
C28_AbilityInference ==
    (vop = "infer" /\ SpecReproduces("str") \cup SpecReproduces("dex") # {}) =>
        \A attack \in vout :
            /\ vin[attack.ability_used] + vin.proficiency
                  + (IF IsNone(attack.magical_bonus) THEN 0 ELSE Val(attack.magical_bonus))
                  = vin.bonus
            /\ (SpecReproduces("str") # {} /\ SpecReproduces("dex") # {}) =>
                  attack.ability_used = "dex"

\* C27: the parser succeeds with base_modifier equal to the explicit value
\* when the phrase is present (+0 included), otherwise equal to the stored
\* modifier of the spellcasting ability (0 included), and fails only when
\* neither is available.
C27_BaseModifierSource ==
    vop = "modifier" =>
        \A r \in vout :
            IF vin.text \in {"explicit", "explicit zero"}
            THEN /\ r.ok
                 /\ Val(r.rec["spellcasting"]).base_modifier =
                        (IF vin.text = "explicit" THEN 3 ELSE 0)
            ELSE IF HasKey(vin.rec["abilities"], "wisdom")
            THEN /\ r.ok
                 /\ Val(r.rec["spellcasting"]).base_modifier =
                        vin.rec["abilities"]["wisdom"].modifier
            ELSE ~ r.ok

\* The tokens of every recognized damage type of a text
SpecDamageTokens(groups) ==
    UNION {UNION {{IF groups[g].nonmagical /\ t \in {"bludgeoning", "piercing", "slashing"}
                   THEN << "nonmagical", t >> ELSE << t >> : t \in groups[g].chunks[c]}
                     : c \in 1..Len(groups[g].chunks)}
              : g \in 1..Len(groups)}

\* C29: the list parse_damage_types returns is duplicate-free and lexically
\* sorted, holds the token of every recognized damage type of the input (also
\* of types joined by "and" without a comma) and nothing else, with
\* "nonmagical" only before the physical types of its group, and every token
\* of it is accepted by validate_damage_type.
C29_DamageTypesComplete ==
    vop = "damage_text" =>
        \A list \in vout :
            /\ \A i, j \in 1..Len(list) : i < j => LexicalRank(list[i]) < LexicalRank(list[j])
            /\ {list[i] : i \in 1..Len(list)} = SpecDamageTokens(vin.groups)
            /\ \A i \in 1..Len(list) : ValidateDamageType(list[i])

====
